---- MODULE Spec2Model ----
(***************************************************************************)
(* Verification model of the rubber comparison chart (src/app.js) and of   *)
(* the gesture module of its earlier iteration (src/unnamed/part_001).     *)
(*                                                                         *)
(* JavaScript numbers are modelled as exact rationals <<n, d>> with d > 0  *)
(* in lowest terms; `null` coordinates and `null` timers are the empty     *)
(* sequence, a present value v is <<v>>.                                   *)
(***************************************************************************)
EXTENDS Integers, Sequences, FiniteSets, Bags, TLC

\* ------------------------------------------------------------------------
\*  Numbers (JavaScript arithmetic on exact rationals)
\* ------------------------------------------------------------------------

Abs(n) == IF n < 0 THEN 0 - n ELSE n

RECURSIVE GCD(_, _)
GCD(a, b) == IF b = 0 THEN a ELSE GCD(b, a % b)

Norm(n, d) ==
    IF n = 0 THEN <<0, 1>>
    ELSE LET g == GCD(Abs(n), d) IN <<n \div g, d \div g>>

R(n) == <<n, 1>>
Frac(n, d) == Norm(n, d)

RAdd(a, b) == Norm(a[1] * b[2] + b[1] * a[2], a[2] * b[2])
RSub(a, b) == Norm(a[1] * b[2] - b[1] * a[2], a[2] * b[2])
RMul(a, b) == Norm(a[1] * b[1], a[2] * b[2])
\* a / b for b # 0
RDiv(a, b) ==
    IF b[1] > 0 THEN Norm(a[1] * b[2], a[2] * b[1])
    ELSE Norm(0 - a[1] * b[2], a[2] * (0 - b[1]))
RLt(a, b) == a[1] * b[2] < b[1] * a[2]
RLe(a, b) == a[1] * b[2] <= b[1] * a[2]
RGt(a, b) == RLt(b, a)
RGe(a, b) == RLe(b, a)
RMax(a, b) == IF RLt(a, b) THEN b ELSE a
RMin(a, b) == IF RLt(b, a) THEN b ELSE a
RAbs(a) == <<Abs(a[1]), a[2]>>

Zero == R(0)
One == R(1)
Half == Frac(1, 2)

\* null / present values
Null == <<>>
Some(v) == <<v>>
IsNull(v) == v = <<>>
Val(v) == v[1]

\* Math.min(...xs) / Math.max(...xs) over a non-empty sequence of integers
RECURSIVE SeqMin(_)
SeqMin(s) ==
    IF Len(s) = 1 THEN s[1]
    ELSE LET m == SeqMin(Tail(s)) IN IF s[1] < m THEN s[1] ELSE m

RECURSIVE SeqMax(_)
SeqMax(s) ==
    IF Len(s) = 1 THEN s[1]
    ELSE LET m == SeqMax(Tail(s)) IN IF s[1] > m THEN s[1] ELSE m

Range(s) == {s[i] : i \in 1..Len(s)}

\* ------------------------------------------------------------------------
\*  Hardness scales (src/app.js lines 42-69)
\* ------------------------------------------------------------------------

\* HARDNESS_SCALES: the three anchors of each country's scale
HARDNESS_SCALES ==
    [Germany |-> <<R(40), Frac(95, 2), R(55)>>,
     Japan   |-> <<R(33), R(36), R(44)>>,
     China   |-> <<R(35), R(39), R(41)>>]

\* HARDNESS_SCALES[country] is defined
HasScale(country) == country \in DOMAIN HARDNESS_SCALES

\* the loop of interpolateScale from index i (1-based): the first segment
\* whose upper anchor is not below the value, or the last segment
RECURSIVE InterpolateFrom(_, _, _, _)
InterpolateFrom(i, value, fromPts, toPts) ==
    IF i > Len(fromPts) - 1 THEN value
    ELSE IF RLe(value, fromPts[i + 1]) \/ i = Len(fromPts) - 1
         THEN LET t == RDiv(RSub(value, fromPts[i]), RSub(fromPts[i + 1], fromPts[i]))
              IN RAdd(toPts[i], RMul(t, RSub(toPts[i + 1], toPts[i])))
         ELSE InterpolateFrom(i + 1, value, fromPts, toPts)

RECURSIVE InterpolateClampedFrom(_, _, _, _)
InterpolateClampedFrom(i, value, fromPts, toPts) ==
    IF i > Len(fromPts) - 1 THEN value
    ELSE IF RLe(value, fromPts[i + 1]) \/ i = Len(fromPts) - 1
         THEN LET t == RDiv(RSub(value, fromPts[i]), RSub(fromPts[i + 1], fromPts[i]))
              IN RAdd(toPts[i], RMul(RMax(Zero, RMin(One, t)), RSub(toPts[i + 1], toPts[i])))
         ELSE InterpolateClampedFrom(i + 1, value, fromPts, toPts)

interpolateScaleClamped(value, fromPts, toPts) == InterpolateClampedFrom(1, value, fromPts, toPts)

interpolateScale(value, fromPts, toPts) == InterpolateFrom(1, value, fromPts, toPts)

toGermanScaleDefaultJapan(value, country) ==
    IF IsNull(value) THEN Null
    ELSE IF country = "Germany" THEN value
    ELSE IF ~HasScale(country)
         THEN Some(interpolateScale(Val(value), HARDNESS_SCALES["Japan"],
                                    HARDNESS_SCALES["Germany"]))
    ELSE Some(interpolateScale(Val(value), HARDNESS_SCALES[country],
                               HARDNESS_SCALES["Germany"]))

\* toGermanScale: null for a non-finite value (Null here), the value itself
\* for Germany or a country without a scale
toGermanScale(value, country) ==
    IF IsNull(value) THEN Null
    ELSE IF country = "Germany" \/ ~HasScale(country) THEN value
    ELSE Some(interpolateScale(Val(value), HARDNESS_SCALES[country],
                               HARDNESS_SCALES["Germany"]))

fromGermanScaleSameDirection(geValue, country) ==
    IF IsNull(geValue) THEN Null
    ELSE IF country = "Germany" \/ ~HasScale(country) THEN geValue
    ELSE Some(interpolateScale(Val(geValue), HARDNESS_SCALES[country],
                               HARDNESS_SCALES["Germany"]))

\* fromGermanScale: the same with the anchors exchanged
fromGermanScale(geValue, country) ==
    IF IsNull(geValue) THEN Null
    ELSE IF country = "Germany" \/ ~HasScale(country) THEN geValue
    ELSE Some(interpolateScale(Val(geValue), HARDNESS_SCALES["Germany"],
                               HARDNESS_SCALES[country]))

\* ------------------------------------------------------------------------
\*  Ranking data and catalog loading
\* ------------------------------------------------------------------------

\* (brand || '').trim().toLowerCase() on the brand spellings of the model
NormBrand(b) ==
    CASE b = "Butterfly" -> "butterfly"
      [] b = " butterfly " -> "butterfly"
      [] b = "DHS" -> "dhs"
      [] b = "dhs" -> "dhs"
      [] b = "Xiom" -> "xiom"
      [] OTHER -> b

NotFound == -1

\* findRubberRank: 0-based index of the first entry of the ranking array whose
\* brand matches (trimmed, case-insensitive) and whose name equals the
\* rubber's name or abbr; -1 when there is none.
RECURSIVE FindFrom(_, _, _)
FindFrom(rubber, rankingArray, i) ==
    IF i > Len(rankingArray) THEN NotFound
    ELSE IF /\ NormBrand(rankingArray[i].brand) = NormBrand(rubber.brand)
            /\ \/ rankingArray[i].name = rubber.name
               \/ rankingArray[i].name = rubber.abbr
         THEN i - 1
         ELSE FindFrom(rubber, rankingArray, i + 1)

findRubberRank(rubber, rankingArray) == FindFrom(rubber, rankingArray, 1)

DefaultPriority == 999

\* parseRatingNumber (lines 127-134) on a JSON number or an absent field: the
\* number as it is, null for a value that is neither number nor string
parseRatingNumber(value) == IF IsNull(value) THEN Null ELSE value

\* normalizeSheet (lines 136-144) on the spellings of the model: trimmed and
\* lower-cased, one of the three sheet kinds, and Classic for anything else
normalizeSheet(value) ==
    CASE value \in {"Classic", "classic"} -> "Classic"
      [] value \in {"Chinese", " chinese "} -> "Chinese"
      [] value \in {"Hybrid", "HYBRID"} -> "Hybrid"
      [] OTHER -> "Classic"

BuildRubberRankAsCoordinate(raw, rankings) ==
    LET base == [name |-> raw.name, abbr |-> raw.abbr, brand |-> raw.brand]
        spinIdx == findRubberRank(base, rankings.spin)
        speedIdx == findRubberRank(base, rankings.speed)
        controlIdx == findRubberRank(base, rankings.control)
        popIdx == findRubberRank(base, rankings.priority)
        bestsellerIdx == findRubberRank(base, rankings.bestseller)
    IN [name |-> raw.name,
        abbr |-> raw.abbr,
        brand |-> raw.brand,
        weight |-> parseRatingNumber(raw.details.weight),
        normalizedHardness |-> toGermanScale(parseRatingNumber(raw.details.hardness),
                                             raw.details.country),
        sheet |-> normalizeSheet(raw.details.sheet),
        controlRank |-> IF controlIdx >= 0 THEN Some(controlIdx + 1) ELSE Null,
        x |-> IF spinIdx >= 0 THEN Some(spinIdx + 1) ELSE Null,
        y |-> IF speedIdx >= 0 THEN Some(speedIdx + 1) ELSE Null,
        spinRank |-> IF spinIdx >= 0 THEN Some(spinIdx + 1) ELSE Null,
        speedRank |-> IF speedIdx >= 0 THEN Some(speedIdx + 1) ELSE Null,
        bestseller |-> bestsellerIdx >= 0,
        priority |-> IF bestsellerIdx >= 0 THEN bestsellerIdx + 1
                     ELSE IF popIdx >= 0
                          THEN Len(rankings.bestseller) + popIdx + 1
                          ELSE DefaultPriority]

\* The per-rubber record loadRubberData builds, with the chart position and
\* ranks overridden from the ranking tables.
BuildRubber(raw, rankings) ==
    LET base == [name |-> raw.name, abbr |-> raw.abbr, brand |-> raw.brand]
        spinIdx == findRubberRank(base, rankings.spin)
        speedIdx == findRubberRank(base, rankings.speed)
        controlIdx == findRubberRank(base, rankings.control)
        popIdx == findRubberRank(base, rankings.priority)
        bestsellerIdx == findRubberRank(base, rankings.bestseller)
    IN [name |-> raw.name,
        abbr |-> raw.abbr,
        brand |-> raw.brand,
        weight |-> parseRatingNumber(raw.details.weight),
        normalizedHardness |-> toGermanScale(parseRatingNumber(raw.details.hardness),
                                             raw.details.country),
        sheet |-> normalizeSheet(raw.details.sheet),
        controlRank |-> IF controlIdx >= 0 THEN Some(controlIdx + 1) ELSE Null,
        x |-> IF spinIdx >= 0 THEN Some(Len(rankings.spin) - spinIdx) ELSE Null,
        y |-> IF speedIdx >= 0 THEN Some(Len(rankings.speed) - speedIdx) ELSE Null,
        spinRank |-> IF spinIdx >= 0 THEN Some(spinIdx + 1) ELSE Null,
        speedRank |-> IF speedIdx >= 0 THEN Some(speedIdx + 1) ELSE Null,
        bestseller |-> bestsellerIdx >= 0,
        priority |-> IF bestsellerIdx >= 0 THEN bestsellerIdx + 1
                     ELSE IF popIdx >= 0
                          THEN Len(rankings.bestseller) + popIdx + 1
                          ELSE DefaultPriority]

RECURSIVE BuildAll(_, _)
BuildAll(rawItems, rankings) ==
    IF rawItems = <<>> THEN <<>>
    ELSE <<BuildRubber(rawItems[1], rankings)>> \o BuildAll(Tail(rawItems), rankings)

HasSpinPosition(r) == ~IsNull(r.x)

HasPosition(r) == ~IsNull(r.x) /\ ~IsNull(r.y)

\* rubberData = data.filter(r => r.x !== null && r.y !== null)
PositionFilter(data) == SelectSeq(data, HasPosition)

\* loadRubberData: the value assigned to rubberData
LoadedRubberData(rawItems, rankings) == PositionFilter(BuildAll(rawItems, rankings))

\* The catalog of the session model
\* manufacturer_details: an absent number is Null, an absent sheet ""
Details(country, sheet, hardness, weight) ==
    [country |-> country, sheet |-> sheet, hardness |-> hardness, weight |-> weight]

RawT05 == [name |-> "Tenergy 05", abbr |-> "T05", brand |-> "Butterfly",
           details |-> Details("Japan", "classic", Some(R(36)), Some(R(69)))]
RawD09C == [name |-> "Dignics 09C", abbr |-> "D09C", brand |-> "Butterfly",
            details |-> Details("Japan", "HYBRID", Some(R(44)), Some(R(72)))]
RawH3 == [name |-> "Hurricane 3", abbr |-> "H3", brand |-> "DHS",
          details |-> Details("China", " chinese ", Some(R(39)), Null)]
RawVega == [name |-> "Vega Pro", abbr |-> "Vega Pro", brand |-> "Xiom",
            details |-> Details("Germany", "", Some(Frac(95, 2)), Some(R(70)))]

E(b, n) == [brand |-> b, name |-> n]

SessionRaw == <<RawT05, RawD09C, RawH3, RawVega>>
SessionRankings ==
    [spin |-> <<E("Butterfly", "D09C"), E("dhs", "Hurricane 3"),
                E(" butterfly ", "Tenergy 05"), E("Xiom", "Vega Pro")>>,
     speed |-> <<E("Butterfly", "Tenergy 05"), E("Butterfly", "Dignics 09C"),
                 E("DHS", "H3")>>,
     control |-> <<E("Butterfly", "Tenergy 05"), E("Xiom", "Vega Pro"),
                   E("DHS", "H3"), E("Xiom", "Omega"), E("Butterfly", "Dignics 09C")>>,
     priority |-> <<E("DHS", "Hurricane 3"), E("Butterfly", "Dignics 09C")>>,
     bestseller |-> <<E("Butterfly", "Tenergy 05")>>]

SessionData == LoadedRubberData(SessionRaw, SessionRankings)

\* ------------------------------------------------------------------------
\*  View geometry
\* ------------------------------------------------------------------------

Xs(rubbers) == [i \in 1..Len(rubbers) |-> Val(rubbers[i].x)]
Ys(rubbers) == [i \in 1..Len(rubbers) |-> Val(rubbers[i].y)]

Span(range) == RSub(range[2], range[1])

PAD_FRACTION == Frac(1, 20)
MIN_PAD == Frac(1, 2)

\* getAutoscaleBounds: Null for an empty set, else the tight bounding box
\* padded on each side by max(0.5, 5% of the span)
getAutoscaleBounds(rubbers) ==
    IF Len(rubbers) = 0 THEN Null
    ELSE LET minX == SeqMin(Xs(rubbers))
             maxX == SeqMax(Xs(rubbers))
             minY == SeqMin(Ys(rubbers))
             maxY == SeqMax(Ys(rubbers))
             padX == RMax(MIN_PAD, RMul(R(maxX - minX), PAD_FRACTION))
             padY == RMax(MIN_PAD, RMul(R(maxY - minY), PAD_FRACTION))
         IN Some([x |-> <<RSub(R(minX), padX), RAdd(R(maxX), padX)>>,
                  y |-> <<RSub(R(minY), padY), RAdd(R(maxY), padY)>>])

viewCoversDataBoundsStrictly(rubbers, xRange, yRange) ==
    LET bounds == getAutoscaleBounds(rubbers)
    IN IF IsNull(bounds) THEN TRUE
       ELSE /\ RLt(xRange[1], Val(bounds).x[1])
            /\ RGt(xRange[2], Val(bounds).x[2])
            /\ RLt(yRange[1], Val(bounds).y[1])
            /\ RGt(yRange[2], Val(bounds).y[2])

viewCoversDataBounds(rubbers, xRange, yRange) ==
    LET bounds == getAutoscaleBounds(rubbers)
    IN IF IsNull(bounds) THEN TRUE
       ELSE /\ RLe(xRange[1], Val(bounds).x[1])
            /\ RGe(xRange[2], Val(bounds).x[2])
            /\ RLe(yRange[1], Val(bounds).y[1])
            /\ RGe(yRange[2], Val(bounds).y[2])

clampRangeToBounds(range, bounds) ==
    <<RMax(range[1], bounds[1]), RMin(range[2], bounds[2])>>

Outside(r, ranges) ==
    \/ RLt(R(Val(r.x)), ranges.xaxis[1])
    \/ RGt(R(Val(r.x)), ranges.xaxis[2])
    \/ RLt(R(Val(r.y)), ranges.yaxis[1])
    \/ RGt(R(Val(r.y)), ranges.yaxis[2])

\* a decision that autoscales only when every filtered item is out of view
shouldAutoscaleWhenNoneInView(filteredData, currentRanges) ==
    IF IsNull(currentRanges) \/ Len(filteredData) = 0 THEN FALSE
    ELSE \A i \in 1..Len(filteredData) : Outside(filteredData[i], Val(currentRanges))

\* shouldAutoscaleForFilteredData; currentRanges is Null or Some(ranges)
shouldAutoscaleForFilteredData(filteredData, currentRanges) ==
    IF IsNull(currentRanges) \/ Len(filteredData) = 0 THEN FALSE
    ELSE \E i \in 1..Len(filteredData) : Outside(filteredData[i], Val(currentRanges))

\* ------------------------------------------------------------------------
\*  Label declutter
\* ------------------------------------------------------------------------

MIN_DIST_X == 55
MIN_DIST_Y == 24

\* an insertion that puts a candidate before those of equal priority
RECURSIVE InsertByPriorityTiesReversed(_, _)
InsertByPriorityTiesReversed(sorted, r) ==
    IF sorted = <<>> THEN <<r>>
    ELSE IF sorted[Len(sorted)].priority < r.priority THEN Append(sorted, r)
    ELSE Append(InsertByPriorityTiesReversed(SubSeq(sorted, 1, Len(sorted) - 1), r),
                sorted[Len(sorted)])

\* [...filteredData].sort((a, b) => a.priority - b.priority): stable
RECURSIVE InsertByPriority(_, _)
InsertByPriority(sorted, r) ==
    IF sorted = <<>> THEN <<r>>
    ELSE IF sorted[Len(sorted)].priority <= r.priority THEN Append(sorted, r)
    ELSE Append(InsertByPriority(SubSeq(sorted, 1, Len(sorted) - 1), r),
                sorted[Len(sorted)])

RECURSIVE SortByPriority(_)
SortByPriority(s) ==
    IF s = <<>> THEN <<>>
    ELSE InsertByPriority(SortByPriority(SubSeq(s, 1, Len(s) - 1)), s[Len(s)])

\* a number whose denominator is a power of two
RECURSIVE PowerOfTwo(_)
PowerOfTwo(d) == d = 1 \/ (d % 2 = 0 /\ PowerOfTwo(d \div 2))

Dyadic(a) == PowerOfTwo(a[2])

\* ((v - range[0]) / span) * plot is computed without any rounding when the
\* operands and the quotient are dyadic: each operation's exact result is
\* then a double (the numbers of the model have few binary digits)
ExactPixel(v, range, plot) ==
    /\ Dyadic(v) /\ Dyadic(range[1]) /\ Dyadic(range[2]) /\ Dyadic(plot)
    /\ Dyadic(RDiv(RSub(v, range[1]), Span(range)))

\* toPixel (lines 1267-1270): the exact position where the code computes in
\* double precision, with the coordinates it was computed from
toPixel(r, xRange, yRange, plotWidth, plotHeight) ==
    [px |-> RMul(RDiv(RSub(R(Val(r.x)), xRange[1]), Span(xRange)), plotWidth),
     py |-> RMul(RDiv(RSub(R(Val(r.y)), yRange[1]), Span(yRange)), plotHeight),
     x |-> Val(r.x),
     y |-> Val(r.y)]

OverlapsOnEitherAxis(p, occ, minDx, minDy) ==
    \/ RLt(RAbs(RSub(p.px, occ.px)), R(minDx))
    \/ RLt(RAbs(RSub(p.py, occ.py)), R(minDy))

\* line 1282 on the positions as computed
Overlaps(p, occ, minDx, minDy) ==
    /\ RLt(RAbs(RSub(p.px, occ.px)), R(minDx))
    /\ RLt(RAbs(RSub(p.py, occ.py)), R(minDy))

\* the distance of two positions is exactly the threshold and one of them
\* is rounded: the doubles compared may lie on either side of it
AtThreshold(a, b, min, va, vb, range, plot) ==
    /\ ~RLt(RAbs(RSub(a, b)), R(min))
    /\ ~RLt(R(min), RAbs(RSub(a, b)))
    /\ ~(ExactPixel(R(va), range, plot) /\ ExactPixel(R(vb), range, plot))

\* rounding decides the test of line 1282; view is the window and the plot
\* size the positions were computed in
RoundingDecides(p, occ, minDx, minDy, view) ==
    LET tx == AtThreshold(p.px, occ.px, minDx, p.x, occ.x, view.xRange, view.plotWidth)
        ty == AtThreshold(p.py, occ.py, minDy, p.y, occ.y, view.yRange, view.plotHeight)
    IN \/ tx /\ (ty \/ RLt(RAbs(RSub(p.py, occ.py)), R(minDy)))
       \/ ty /\ RLt(RAbs(RSub(p.px, occ.px)), R(minDx))

\* occupied.some(...) of lines 1281-1283: the values it can take. A pair
\* that overlaps on the exact positions overlaps on the doubles
SomeOverlapOutcomes(p, occupied, minDx, minDy, view) ==
    IF \E k \in 1..Len(occupied) : Overlaps(p, occupied[k], minDx, minDy) THEN {TRUE}
    ELSE IF \E k \in 1..Len(occupied) : RoundingDecides(p, occupied[k], minDx, minDy, view)
         THEN BOOLEAN
    ELSE {FALSE}

\* The greedy pass over the sorted candidates: acc = [visible, occupied];
\* the selections the pass can return
RECURSIVE GreedyPass(_, _, _, _, _, _, _, _)
GreedyPass(sorted, i, acc, xRange, yRange, plotWidth, plotHeight, dist) ==
    IF i > Len(sorted) THEN {acc.visible}
    ELSE LET p == toPixel(sorted[i], xRange, yRange, plotWidth, plotHeight)
             next(overlaps) == IF overlaps THEN acc
                               ELSE [visible |-> Append(acc.visible, sorted[i]),
                                     occupied |-> Append(acc.occupied, p)]
         IN UNION { GreedyPass(sorted, i + 1, next(overlaps),
                               xRange, yRange, plotWidth, plotHeight, dist) :
                    overlaps \in SomeOverlapOutcomes(p, acc.occupied, dist[1], dist[2],
                                                      [xRange |-> xRange, yRange |-> yRange,
                                                       plotWidth |-> plotWidth,
                                                       plotHeight |-> plotHeight]) }

\* a test that lets an inverted window through
DegenerateWindowZeroSpanOnly(xRange, yRange) ==
    Span(xRange) = Zero \/ Span(yRange) = Zero

\* line 1265: xSpan <= 0 || ySpan <= 0
DegenerateWindow(xRange, yRange) ==
    RLe(Span(xRange), Zero) \/ RLe(Span(yRange), Zero)

DeclutterInGivenOrder(filteredData, xRange, yRange, plotWidth, plotHeight, minDx, minDy) ==
    IF DegenerateWindow(xRange, yRange) THEN {filteredData}
    ELSE GreedyPass(filteredData, 1,
                    [visible |-> <<>>, occupied |-> <<>>],
                    xRange, yRange, plotWidth, plotHeight, <<minDx, minDy>>)

\* The declutter selections for a given window and plot size: one, unless
\* rounding decides a comparison
Declutter(filteredData, xRange, yRange, plotWidth, plotHeight, minDx, minDy) ==
    IF DegenerateWindow(xRange, yRange) THEN {filteredData}
    ELSE GreedyPass(SortByPriority(filteredData), 1,
                    [visible |-> <<>>, occupied |-> <<>>],
                    xRange, yRange, plotWidth, plotHeight, <<minDx, minDy>>)

FIRST_RENDER_PAD == 2
FIRST_RENDER_FRACTION == Frac(82, 100)

\* computeVisibleRubbers: layout is Null before the first plot, else
\* Some([xaxis, yaxis]) as read from the chart's full layout; size is the
\* plot area [w, h], rect the container [w, h]. The value is the set of
\* selections the code can return.
computeVisibleRubbers(filteredData, layout, size, rect) ==
    IF Len(filteredData) = 0 THEN {<<>>}
    ELSE IF ~IsNull(layout)
         THEN Declutter(filteredData, Val(layout).xaxis, Val(layout).yaxis,
                        R(size.w), R(size.h), MIN_DIST_X, MIN_DIST_Y)
         ELSE Declutter(filteredData,
                        <<R(SeqMin(Xs(filteredData)) - FIRST_RENDER_PAD),
                          R(SeqMax(Xs(filteredData)) + FIRST_RENDER_PAD)>>,
                        <<R(SeqMin(Ys(filteredData)) - FIRST_RENDER_PAD),
                          R(SeqMax(Ys(filteredData)) + FIRST_RENDER_PAD)>>,
                        RMul(R(rect.w), FIRST_RENDER_FRACTION),
                        RMul(R(rect.h), FIRST_RENDER_FRACTION),
                        MIN_DIST_X, MIN_DIST_Y)

\* ------------------------------------------------------------------------
\*  Zoom
\* ------------------------------------------------------------------------

MIN_SPAN_FRACTION == Frac(1, 20)

NoRanges == [ok |-> FALSE, xRange |-> <<Zero, Zero>>, yRange |-> <<Zero, Zero>>]
Ranges(xr, yr) == [ok |-> TRUE, xRange |-> xr, yRange |-> yr]

\* The scale after the zoom-in clamp (lines 1849-1859)
ClampedScale(xSpan, ySpan, scale, autoscaleBounds) ==
    IF ~IsNull(autoscaleBounds) /\ RLt(scale, One)
    THEN LET fullXSpan == Span(Val(autoscaleBounds).x)
             fullYSpan == Span(Val(autoscaleBounds).y)
             minXSpan == RMul(fullXSpan, MIN_SPAN_FRACTION)
             minYSpan == RMul(fullYSpan, MIN_SPAN_FRACTION)
             scaleForMinX == IF RGt(xSpan, Zero) THEN RDiv(minXSpan, xSpan) ELSE scale
             scaleForMinY == IF RGt(ySpan, Zero) THEN RDiv(minYSpan, ySpan) ELSE scale
         IN RMax(RMax(scale, scaleForMinX), scaleForMinY)
    ELSE scale

RescaledRangesAboutCentre(xRange, yRange, clampedScale, anchorFx, anchorFy) ==
    LET xMid == RAdd(xRange[1], RMul(Half, Span(xRange)))
        yMid == RAdd(yRange[1], RMul(Half, Span(yRange)))
        newXSpan == RMul(Span(xRange), clampedScale)
        newYSpan == RMul(Span(yRange), clampedScale)
    IN Ranges(<<RSub(xMid, RMul(Half, newXSpan)), RAdd(xMid, RMul(Half, newXSpan))>>,
              <<RSub(yMid, RMul(Half, newYSpan)), RAdd(yMid, RMul(Half, newYSpan))>>)

\* lines 1844-1865: the window of spans scaled by clampedScale that keeps
\* the anchor point at the fraction (anchorFx, anchorFy)
RescaledRanges(xRange, yRange, clampedScale, anchorFx, anchorFy) ==
    LET xSpan == Span(xRange)
        ySpan == Span(yRange)
        xCenter == RAdd(xRange[1], RMul(anchorFx, xSpan))
        yCenter == RAdd(yRange[1], RMul(anchorFy, ySpan))
        newXSpan == RMul(xSpan, clampedScale)
        newYSpan == RMul(ySpan, clampedScale)
    IN Ranges(<<RSub(xCenter, RMul(anchorFx, newXSpan)),
                RAdd(xCenter, RMul(RSub(One, anchorFx), newXSpan))>>,
              <<RSub(yCenter, RMul(anchorFy, newYSpan)),
                RAdd(yCenter, RMul(RSub(One, anchorFy), newYSpan))>>)

\* lines 1840-1842: a zoom-out is refused once the view covers the data bounds
ZoomOutRefused(xRange, yRange, scale, filtered) ==
    /\ RGt(scale, One)
    /\ ~IsNull(getAutoscaleBounds(filtered))
    /\ viewCoversDataBounds(filtered, xRange, yRange)

\* computeZoomedRanges over the currently filtered data; NoRanges is `null`
computeZoomedRanges(xRange, yRange, scale, anchorFx, anchorFy, filtered) ==
    LET xSpan == Span(xRange)
        ySpan == Span(yRange)
        autoscaleBounds == getAutoscaleBounds(filtered)
    IN IF RLe(xSpan, Zero) \/ RLe(ySpan, Zero) THEN NoRanges
       ELSE IF ZoomOutRefused(xRange, yRange, scale, filtered) THEN NoRanges
       ELSE LET clampedScale == ClampedScale(xSpan, ySpan, scale, autoscaleBounds)
                new == RescaledRanges(xRange, yRange, clampedScale, anchorFx, anchorFy)
            IN IF RGt(clampedScale, One) /\ ~IsNull(autoscaleBounds)
               THEN Ranges(clampRangeToBounds(new.xRange, Val(autoscaleBounds).x),
                           clampRangeToBounds(new.yRange, Val(autoscaleBounds).y))
               ELSE new

\* ------------------------------------------------------------------------
\*  Range filters (src/app.js lines 90-101, 492-496, 629-633)
\* ------------------------------------------------------------------------

\* weightFilterState / hardnessFilterState as declared: all null
NoRangeState == [dataMin |-> Null, dataMax |-> Null, selectedMin |-> Null, selectedMax |-> Null]
CONTROL_TIERS == {"Easy", "Med", "Hard"}
SHEETS == {"Classic", "Chinese", "Hybrid"}

\* controlFilterState as declared (lines 92-96)
NoControlState == [rankMin |-> Null, rankMax |-> Null, selectedTiers |-> CONTROL_TIERS]

\* The filter panel before initFilters: no checkbox exists.
\* debounceTimers: the sliders whose debounce(onChange, 40) closure has its
\* timer running (one closure per slider filter, lines 529 and 686), in the
\* order the timers expire: both wait 40 ms, so the one restarted last
\* expires last;
\* brandOptions, nameOptions: the values of the checkboxes of the brand and
\* the name filter; brands, sheets: the checked values of the brand and the
\* sheet filter (the checked names are the variable selectedNames)
NoFilters == [weight |-> NoRangeState, hardness |-> NoRangeState, debounceTimers |-> <<>>,
              nameOptions |-> {}, brandOptions |-> {}, brands |-> {}, sheets |-> {},
              control |-> NoControlState]

\* isWeightFilterActive / isHardnessFilterActive on a filter state: the four
\* numbers are finite and the selection is narrower than the data bounds
isRangeFilterActive(state) ==
    /\ ~IsNull(state.dataMin) /\ ~IsNull(state.dataMax)
    /\ ~IsNull(state.selectedMin) /\ ~IsNull(state.selectedMax)
    /\ \/ RGt(Val(state.selectedMin), Val(state.dataMin))
       \/ RLt(Val(state.selectedMax), Val(state.dataMax))

isWeightFilterActive(filterState) == isRangeFilterActive(filterState.weight)
isHardnessFilterActive(filterState) == isRangeFilterActive(filterState.hardness)

InSelectedRangeOrMissing(v, state) ==
    \/ IsNull(v)
    \/ /\ RGe(Val(v), Val(state.selectedMin))
       /\ RLe(Val(v), Val(state.selectedMax))

\* Number.isFinite(v) && v >= min && v <= max (lines 1229-1230)
InSelectedRange(v, state) ==
    /\ ~IsNull(v)
    /\ RGe(Val(v), Val(state.selectedMin))
    /\ RLe(Val(v), Val(state.selectedMax))

\* ------------------------------------------------------------------------
\*  Session state (src/app.js)
\* ------------------------------------------------------------------------

VARIABLES
    phase,                \* "init" | "fit" | "ready": initializeApp's progress
    rubberData,           \* the visualized catalog
    selectedNames,        \* checked values of the name filter
    hasPlotted,
    isInternalUpdate,     \* the suppression guard
    relayoutTimer,        \* Null or Some(ms left) of the 120 ms debounce
    internalUpdateTimer,  \* Null or Some(ms left) of the 300 ms disarm delay
    currentFilteredData,
    layoutRange,          \* chartEl._fullLayout axis ranges: Null or Some(ranges)
    drawn,                \* the rubbers of the traces last handed to the backend
    inflight,             \* backend notifications (plotly_relayout) not yet delivered
    touches,              \* fingers on the chart
    pinch,                \* the pinch closure variables of updateChart
    budget,               \* user events left
    lastEvent,            \* history: the last step taken
    lastUser,             \* history: the last user event
    chain,                \* history: notification-triggered recomputes since lastUser
    lastPush,             \* history: the last programmatic window push
    sincePush,            \* history: ms since the last push, [any, guarded]
    burst,                \* history: the notifications that (re)started the running debounce timer
    zoom,                 \* the last zoom request made of the zoom engine, and its result
    loadIn,               \* the fetched catalog and rank tables loadRubberData works on
    gesture,              \* closure state of initMobilePinchZoom (coalesced pinch)
    probe,                \* a declutter pass run with other pixel thresholds
    conv,                 \* a hardness value, its conversion to the German scale and back
    filterState,          \* weightFilterState and hardnessFilterState
    detail                \* the detail panels: selection, country, tab contents, cache, fetches

ctlVars == <<hasPlotted, isInternalUpdate, relayoutTimer, internalUpdateTimer,
             currentFilteredData, layoutRange, drawn, inflight, lastPush, sincePush, burst>>
vars == <<phase, rubberData, selectedNames, ctlVars, touches, pinch, budget,
          lastEvent, lastUser, chain, zoom, loadIn, gesture, probe, conv, filterState,
          detail>>
\* state of the component specifications, untouched by the chart session
partVars == <<zoom, loadIn, gesture, probe, conv, filterState, detail>>

MaxEvents == 3
MaxInflight == 2

RELAYOUT_DEBOUNCE_MS == 120
INTERNAL_UPDATE_MS == 300
\* time advances in steps at which both timers expire exactly
TickMs == GCD(INTERNAL_UPDATE_MS, RELAYOUT_DEBOUNCE_MS)

\* the chart container and the plot area left by the layout margins
\* (l: 10, r: 10, t: 30, b: 30). Numbers are exact rationals where the code
\* computes in double precision; where the rounding of the doubles can
\* decide a comparison of the declutter pass, both outcomes are taken
\* (RoundingDecides).
ContainerRect == [w |-> 120, h |-> 100]
PlotSize == [w |-> ContainerRect.w - 20, h |-> ContainerRect.h - 60]

AllNames == {rubberData[i].name : i \in 1..Len(rubberData)}
FilterChoices == {{"Tenergy 05", "Dignics 09C", "Hurricane 3"},
                  {"Dignics 09C", "Hurricane 3"}, {}}

NameSelected(names, r) == r.name \in names

\* getWeightBoundsFromData / getHardnessBoundsFromData: min and max of the
\* finite values, null when there is none (a rubber without the field has
\* no finite value)
RECURSIVE FiniteValues(_, _)
FiniteValues(data, field) ==
    IF data = <<>> THEN <<>>
    ELSE IF field \notin DOMAIN Head(data) \/ IsNull(Head(data)[field])
         THEN FiniteValues(Tail(data), field)
    ELSE <<Val(Head(data)[field])>> \o FiniteValues(Tail(data), field)

RECURSIVE RSeqMin(_)
RSeqMin(s) == IF Len(s) = 1 THEN s[1] ELSE RMin(s[1], RSeqMin(Tail(s)))

RECURSIVE RSeqMax(_)
RSeqMax(s) == IF Len(s) = 1 THEN s[1] ELSE RMax(s[1], RSeqMax(Tail(s)))

\* initWeightRangeFilter / initHardnessRangeFilter: the state stays as
\* declared without data, else data bounds and selection are the bounds
initRangeFilter(data, field) ==
    LET vals == FiniteValues(data, field) IN
    IF vals = <<>> THEN NoRangeState
    ELSE [dataMin |-> Some(RSeqMin(vals)), dataMax |-> Some(RSeqMax(vals)),
          selectedMin |-> Some(RSeqMin(vals)), selectedMax |-> Some(RSeqMax(vals))]

\* setWeightRange / setHardnessRange with finite arguments
setRange(state, minValue, maxValue) ==
    IF IsNull(state.dataMin) \/ IsNull(state.dataMax) THEN state
    ELSE LET clampedMin == RMax(Val(state.dataMin), RMin(Val(state.dataMax), minValue))
             clampedMax == RMax(Val(state.dataMin), RMin(Val(state.dataMax), maxValue))
         IN [state EXCEPT !.selectedMin = Some(RMin(clampedMin, clampedMax)),
                          !.selectedMax = Some(RMax(clampedMin, clampedMax))]

\* resetWeightRangeToDataBounds / resetHardnessRangeToDataBounds
resetRangeToDataBounds(state) ==
    IF IsNull(state.dataMin) \/ IsNull(state.dataMax) THEN state
    ELSE setRange(state, Val(state.dataMin), Val(state.dataMax))

\* the range conditions shared by getFilteredData (lines 1227-1230) and
\* buildNameOptionsFromFilters (lines 932-933)
InActiveRanges(r, fs) ==
    /\ \/ ~isHardnessFilterActive(fs)
       \/ InSelectedRange(r.normalizedHardness, fs.hardness)
    /\ \/ ~isWeightFilterActive(fs)
       \/ InSelectedRange(r.weight, fs.weight)

\* getControlBoundsFromData (lines 710-721) as a sequence of finite ranks
RECURSIVE FiniteRanks(_)
FiniteRanks(data) ==
    IF data = <<>> THEN <<>>
    ELSE IF IsNull(Head(data).controlRank) THEN FiniteRanks(Tail(data))
    ELSE <<Val(Head(data).controlRank)>> \o FiniteRanks(Tail(data))

\* initControlToggleFilter (lines 774-786): without a ranked rubber the
\* state stays as declared and no pill is created
initControlToggleFilter(data) ==
    LET ranks == FiniteRanks(data) IN
    IF ranks = <<>> THEN NoControlState
    ELSE [rankMin |-> Some(SeqMin(ranks)), rankMax |-> Some(SeqMax(ranks)),
          selectedTiers |-> CONTROL_TIERS]

\* the control pills exist
HasControlPills(fs) == ~IsNull(fs.control.rankMin)

\* getControlTierFromRank (lines 723-737): Null or Some(tier)
getControlTierFromRank(rank, control) ==
    IF IsNull(rank) \/ IsNull(control.rankMin) \/ IsNull(control.rankMax) THEN Null
    ELSE LET totalRanks == Val(control.rankMax) - Val(control.rankMin) + 1 IN
         IF totalRanks <= 0 THEN Null
         ELSE LET d == Val(rank) - Val(control.rankMin)
                  upper == IF totalRanks - 1 < d THEN totalRanks - 1 ELSE d
                  zeroBasedRank == IF upper < 0 THEN 0 ELSE upper
                  pct == Frac(zeroBasedRank, totalRanks)
              IN IF RLt(pct, Frac(2, 5)) THEN Some("Easy")
                 ELSE IF RLt(pct, Frac(4, 5)) THEN Some("Med")
                 ELSE Some("Hard")

\* isControlFilterActive (lines 771-773)
isControlFilterActive(fs) == Cardinality(fs.control.selectedTiers) < 3

\* the control condition of getFilteredData (lines 1231-1234) and
\* buildNameOptionsFromFilters (lines 936-939)
InSelectedTiers(r, fs) ==
    \/ ~isControlFilterActive(fs)
    \/ LET tier == getControlTierFromRank(r.controlRank, fs.control)
       IN ~IsNull(tier) /\ Val(tier) \in fs.control.selectedTiers

\* getFilteredData (lines 1204-1236); names are the checked values of the
\* name filter. A rubber's name stands for its fullName: the catalogs of
\* the model have no two rubbers of one name.
getFilteredData(data, names, fs) ==
    IF fs.brands = {} \/ names = {} \/ fs.sheets = {} THEN <<>>
    ELSE LET keep(r) == /\ r.brand \in fs.brands
                        /\ NameSelected(names, r)
                        /\ r.sheet \in fs.sheets
                        /\ InActiveRanges(r, fs)
                        /\ InSelectedTiers(r, fs)
         IN SelectSeq(data, keep)

\* buildNameOptionsFromFilters (lines 908-962): without a checked brand the
\* name filter shows an instruction and has no checkbox; else the options
\* are the names of the rubbers passing the other filters, and an option is
\* checked when it was checked, or was no option
buildNameOptionsFromFilters(data, fs, checked) ==
    IF fs.brands = {}
    THEN [fs |-> [fs EXCEPT !.nameOptions = {}], checked |-> {}]
    ELSE LET pass(r) == /\ r.brand \in fs.brands
                        /\ (fs.sheets = {} \/ r.sheet \in fs.sheets)
                        /\ InActiveRanges(r, fs)
                        /\ InSelectedTiers(r, fs)
             uniqueNames == { data[i].name : i \in { k \in 1..Len(data) : pass(data[k]) } }
         IN [fs |-> [fs EXCEPT !.nameOptions = uniqueNames],
             checked |-> { n \in uniqueNames : n \in checked \/ n \notin fs.nameOptions }]

\* initFilters (lines 2520-2539): a checked checkbox for every brand and
\* every sheet kind, the range filters at the data bounds, the control
\* pills, and the name filter built with every option checked
initFilters(data) ==
    buildNameOptionsFromFilters(data,
                                [NoFilters EXCEPT
                                    !.brandOptions = { data[i].brand : i \in 1..Len(data) },
                                    !.brands = { data[i].brand : i \in 1..Len(data) },
                                    !.sheets = SHEETS,
                                    !.weight = initRangeFilter(data, "weight"),
                                    !.hardness = initRangeFilter(data, "normalizedHardness"),
                                    !.control = initControlToggleFilter(data)],
                                {})

\* resetFiltersToAll (lines 2467-2480): every brand and sheet checked, the
\* ranges back at the data bounds, every tier selected, and the name filter
\* emptied and built again
resetFiltersToAll(data, fs) ==
    buildNameOptionsFromFilters(data,
                                [fs EXCEPT !.brands = fs.brandOptions,
                                           !.sheets = SHEETS,
                                           !.weight = resetRangeToDataBounds(@),
                                           !.hardness = resetRangeToDataBounds(@),
                                           !.control.selectedTiers = CONTROL_TIERS,
                                           !.nameOptions = {}],
                                {})

\* the filter panel of the session catalog
SessionFilters == initFilters(SessionData).fs

\* getFilteredData() on the program's state
FilteredNow == getFilteredData(rubberData, selectedNames, filterState)

\* no debounce timer running: since is the time since the last notification
\* that (re)started the timer, count the number of them
NoBurst == [since |-> 0, count |-> 0]

\* The controller's variables as one record, so that handlers compose
Ctl == [hasPlotted |-> hasPlotted,
        isInternalUpdate |-> isInternalUpdate,
        relayoutTimer |-> relayoutTimer,
        internalUpdateTimer |-> internalUpdateTimer,
        currentFilteredData |-> currentFilteredData,
        layoutRange |-> layoutRange,
        drawn |-> drawn,
        inflight |-> inflight,
        lastPush |-> lastPush,
        sincePush |-> sincePush,
        burst |-> burst]

Commit(c) ==
    /\ hasPlotted' = c.hasPlotted
    /\ isInternalUpdate' = c.isInternalUpdate
    /\ relayoutTimer' = c.relayoutTimer
    /\ internalUpdateTimer' = c.internalUpdateTimer
    /\ currentFilteredData' = c.currentFilteredData
    /\ layoutRange' = c.layoutRange
    /\ drawn' = c.drawn
    /\ inflight' = c.inflight
    /\ lastPush' = c.lastPush
    /\ sincePush' = c.sincePush
    /\ burst' = c.burst

\* ---- the render backend (Plotly), at its interface ----

BACKEND_PAD == Frac(1, 4)
EmptyAutorange == [xaxis |-> <<R(-1), R(6)>>, yaxis |-> <<R(-1), R(4)>>]

\* The window the backend chooses under autorange: the drawn points' bounding
\* box with a margin, or its default axes when nothing is drawn.
Autorange(traces) ==
    IF Len(traces) = 0 THEN EmptyAutorange
    ELSE [xaxis |-> <<RSub(R(SeqMin(Xs(traces))), BACKEND_PAD),
                      RAdd(R(SeqMax(Xs(traces))), BACKEND_PAD)>>,
          yaxis |-> <<RSub(R(SeqMin(Ys(traces))), BACKEND_PAD),
                      RAdd(R(SeqMax(Ys(traces))), BACKEND_PAD)>>]

\* A programmatic window push: the backend takes the window and will notify.
\* kind names the call site; the guard's value at the call is recorded.
Push(c, kind, ranges, guarded) ==
    [c EXCEPT !.layoutRange = Some(ranges),
              !.inflight = Append(c.inflight, "range"),
              !.lastPush = [kind |-> kind, armed |-> c.isInternalUpdate,
                            auto |-> kind \in {"autoscale", "reset"}],
              !.sincePush = [any |-> 0,
                             guarded |-> IF guarded THEN 0 ELSE c.sincePush.guarded]]

\* ---- updateChart ----

ArmGuardLate(c) ==
    [c EXCEPT !.relayoutTimer = Null, !.burst = NoBurst,
              !.internalUpdateTimer = Null]

\* lines 1634-1636
ArmGuard(c) ==
    [c EXCEPT !.isInternalUpdate = TRUE,
              !.relayoutTimer = Null, !.burst = NoBurst,
              !.internalUpdateTimer = Null]

\* lines 1638-1643: Plotly.react / Plotly.newPlot with the layout's ranges
PlotlyReact(c, visibleData, currentRanges) ==
    LET d == [c EXCEPT !.drawn = visibleData, !.hasPlotted = TRUE]
        pushed == Push(d, "react",
                       IF IsNull(currentRanges) THEN Autorange(visibleData)
                       ELSE Val(currentRanges),
                       TRUE)
    IN [pushed EXCEPT !.lastPush.auto = IsNull(currentRanges)]

StartDisarmTimerShort(c) == [c EXCEPT !.internalUpdateTimer = Some(RELAYOUT_DEBOUNCE_MS)]

\* line 1648
StartDisarmTimer(c) == [c EXCEPT !.internalUpdateTimer = Some(INTERNAL_UPDATE_MS)]

\* lines 1473-1477
UnchangedDataSkip(c, filteredData, preserveRanges, force) ==
    /\ ~preserveRanges
    /\ ~force
    /\ Len(c.currentFilteredData) > 0
    /\ filteredData = c.currentFilteredData

\* a decision that looks at the filtered items whatever the options say
RangeDecisionIgnoringPreserve(c, filteredData, preserveRanges) ==
    LET currentRanges == IF c.hasPlotted THEN c.layoutRange ELSE Null
    IN IF shouldAutoscaleForFilteredData(filteredData, currentRanges)
       THEN Null
       ELSE currentRanges

\* lines 1552-1555; Null means autorange
RangeDecision(c, filteredData, preserveRanges) ==
    LET currentRanges == IF c.hasPlotted THEN c.layoutRange ELSE Null
    IN IF ~preserveRanges /\ shouldAutoscaleForFilteredData(filteredData, currentRanges)
       THEN Null
       ELSE currentRanges

\* updateChart: the states the call can leave, one for each selection
\* computeVisibleRubbers can return
updateChart(c, filteredData, preserveRanges, force) ==
    IF UnchangedDataSkip(c, filteredData, preserveRanges, force) THEN {c}
    ELSE LET c1 == [c EXCEPT !.currentFilteredData = filteredData]
             currentRanges == RangeDecision(c1, filteredData, preserveRanges)
         IN { StartDisarmTimer(PlotlyReact(ArmGuard(c1), visibleData, currentRanges)) :
                visibleData \in computeVisibleRubbers(filteredData, c.layoutRange,
                                                      PlotSize, ContainerRect) }

\* initChart (lines 2733-2735): updateChart(); updateChart({ force: true })
initChart(c, filteredData) ==
    UNION { updateChart(c1, filteredData, FALSE, TRUE) :
            c1 \in updateChart(c, filteredData, FALSE, FALSE) }

\* ---- zoom buttons ----

\* applyZoomLayout: Plotly.relayout with explicit ranges
applyZoomLayout(c, ranges, kind, guarded) ==
    Push(c, kind, [xaxis |-> ranges.xRange, yaxis |-> ranges.yRange], guarded)

ZOOM_IN == Frac(6, 10)

ZoomRequest(c, scale) ==
    computeZoomedRanges(Val(c.layoutRange).xaxis, Val(c.layoutRange).yaxis,
                        scale, Half, Half, c.currentFilteredData)

zoomChart(c, scale) ==
    IF IsNull(c.layoutRange) THEN c
    ELSE LET ranges == ZoomRequest(c, scale)
         IN IF ranges.ok THEN applyZoomLayout(c, ranges, "zoom", FALSE) ELSE c

triggerAutoscale(c) ==
    IF c.hasPlotted THEN Push(c, "autoscale", Autorange(c.drawn), FALSE) ELSE c

\* ---- states the chart is left in ----

\* the variables of updateChart's module as declared (lines 83-87)
BlankCtl == [hasPlotted |-> FALSE,
             isInternalUpdate |-> FALSE,
             relayoutTimer |-> Null,
             internalUpdateTimer |-> Null,
             currentFilteredData |-> <<>>,
             layoutRange |-> Null,
             drawn |-> <<>>,
             inflight |-> <<>>,
             lastPush |-> [kind |-> "none", armed |-> FALSE, auto |-> FALSE],
             sincePush |-> [any |-> INTERNAL_UPDATE_MS, guarded |-> INTERNAL_UPDATE_MS],
             burst |-> NoBurst]

\* the notifications of the pushes made have been discarded under the armed
\* guard and the disarm timer has fired
AtRest(c) ==
    [c EXCEPT !.isInternalUpdate = FALSE,
              !.relayoutTimer = Null,
              !.internalUpdateTimer = Null,
              !.inflight = <<>>,
              !.lastPush = [kind |-> "none", armed |-> FALSE, auto |-> FALSE],
              !.sincePush = [any |-> INTERNAL_UPDATE_MS, guarded |-> INTERNAL_UPDATE_MS],
              !.burst = NoBurst]

\* the chart after initChart and the fit of initializeApp (lines 2782 and
\* 2733-2735), at rest
RestAfterFit(filteredData) ==
    { AtRest(triggerAutoscale(c)) : c \in initChart(BlankCtl, filteredData) }

\* the controller's variables start as the record says
Starts(c) ==
    /\ hasPlotted = c.hasPlotted
    /\ isInternalUpdate = c.isInternalUpdate
    /\ relayoutTimer = c.relayoutTimer
    /\ internalUpdateTimer = c.internalUpdateTimer
    /\ currentFilteredData = c.currentFilteredData
    /\ layoutRange = c.layoutRange
    /\ drawn = c.drawn
    /\ inflight = c.inflight
    /\ lastPush = c.lastPush
    /\ sincePush = c.sincePush
    /\ burst = c.burst

\* ---- pinch-to-zoom handlers attached by updateChart ----

NoPinch == [pinchStartDist |-> Null, pinchStartXRange |-> Null, pinchStartYRange |-> Null,
            pinchAnchorFx |-> Half, pinchAnchorFy |-> Half,
            pinchActive |-> FALSE, pinchFinalRanges |-> Null]

Clamp01(v) == RMax(Zero, RMin(One, v))

\* touchstart with two touches; dist is the finger distance, mid the touch
\* midpoint relative to the plot rectangle's top-left corner
onTouchStart(c, p, dist, mid) ==
    LET c1 == [c EXCEPT !.relayoutTimer = Null, !.burst = NoBurst,
                        !.internalUpdateTimer = Null,
                        !.isInternalUpdate = TRUE]
        p1 == [p EXCEPT !.pinchActive = TRUE,
                        !.pinchFinalRanges = Null,
                        !.pinchStartDist = Some(dist)]
    IN IF IsNull(c.layoutRange) THEN [c |-> c1, p |-> p1]
       ELSE [c |-> c1,
             p |-> [p1 EXCEPT
                 !.pinchStartXRange = Some(Val(c.layoutRange).xaxis),
                 !.pinchStartYRange = Some(Val(c.layoutRange).yaxis),
                 !.pinchAnchorFx = Clamp01(RDiv(R(mid.x), R(PlotSize.w))),
                 !.pinchAnchorFy = Clamp01(RSub(One, RDiv(R(mid.y), R(PlotSize.h))))]]

\* a handler that zooms the window currently shown instead of the recorded one
PinchRangesFromCurrentWindow(c, p, currentDist) ==
    computeZoomedRanges(Val(c.layoutRange).xaxis, Val(c.layoutRange).yaxis,
                        RDiv(R(Val(p.pinchStartDist)), R(currentDist)),
                        p.pinchAnchorFx, p.pinchAnchorFy, c.currentFilteredData)

\* The window a touchmove sample asks for
PinchRanges(c, p, currentDist) ==
    computeZoomedRanges(Val(p.pinchStartXRange), Val(p.pinchStartYRange),
                        RDiv(R(Val(p.pinchStartDist)), R(currentDist)),
                        p.pinchAnchorFx, p.pinchAnchorFy, c.currentFilteredData)

PinchArmGuardTimersOnly(c) ==
    [c EXCEPT !.relayoutTimer = Null, !.burst = NoBurst,
              !.internalUpdateTimer = Null]

\* lines 1788-1790
PinchArmGuard(c) ==
    [c EXCEPT !.isInternalUpdate = TRUE,
              !.relayoutTimer = Null, !.burst = NoBurst,
              !.internalUpdateTimer = Null]

\* touchmove with nTouches touches at finger distance currentDist
onTouchMove(c, p, nTouches, currentDist) ==
    IF nTouches # 2 \/ IsNull(p.pinchStartDist) THEN [c |-> c, p |-> p]
    ELSE IF IsNull(p.pinchStartXRange) \/ IsNull(p.pinchStartYRange) THEN [c |-> c, p |-> p]
    ELSE IF currentDist < 1 THEN [c |-> c, p |-> p]
    ELSE LET ranges == PinchRanges(c, p, currentDist)
         IN IF ranges.ok
            THEN [c |-> applyZoomLayout(PinchArmGuard(c), ranges, "pinch", TRUE),
                  p |-> [p EXCEPT !.pinchFinalRanges = Some(ranges)]]
            ELSE [c |-> c, p |-> p]

\* a pinch end that clears the timers and starts none
onPinchEndWithoutTimer(c, p, nTouches) ==
    IF nTouches < 2 /\ p.pinchActive
    THEN [c |-> [c EXCEPT !.relayoutTimer = Null, !.burst = NoBurst,
                          !.internalUpdateTimer = Null],
          p |-> [p EXCEPT !.pinchActive = FALSE,
                          !.pinchStartDist = Null,
                          !.pinchStartXRange = Null,
                          !.pinchStartYRange = Null,
                          !.pinchFinalRanges = Null]]
    ELSE [c |-> c, p |-> p]

\* touchend / touchcancel leaving nTouches touches
onPinchEnd(c, p, nTouches) ==
    IF nTouches < 2 /\ p.pinchActive
    THEN [c |-> [c EXCEPT !.relayoutTimer = Null, !.burst = NoBurst,
                          !.internalUpdateTimer = Some(INTERNAL_UPDATE_MS)],
          p |-> [p EXCEPT !.pinchActive = FALSE,
                          !.pinchStartDist = Null,
                          !.pinchStartXRange = Null,
                          !.pinchStartYRange = Null,
                          !.pinchFinalRanges = Null]]
    ELSE [c |-> c, p |-> p]

\* ---- the plotly_relayout handler (lines 1691-1704) ----

HasRangeKey(note) == note = "range"

\* clearTimeout(relayoutTimer); relayoutTimer = setTimeout(..., 120)
RestartDebounce(c) ==
    [c EXCEPT !.relayoutTimer = Some(RELAYOUT_DEBOUNCE_MS),
              !.burst = [since |-> 0,
                         count |-> IF IsNull(c.relayoutTimer) THEN 1 ELSE c.burst.count + 1]]

onRelayoutUnguarded(c, note) ==
    IF ~HasRangeKey(note) THEN c
    ELSE RestartDebounce(c)

\* a handler that leaves a running timer alone
onRelayoutThrottled(c, note) ==
    IF c.isInternalUpdate THEN c
    ELSE IF ~HasRangeKey(note) THEN c
    ELSE IF ~IsNull(c.relayoutTimer)
         THEN [c EXCEPT !.burst = [since |-> 0, count |-> c.burst.count + 1]]
    ELSE RestartDebounce(c)

onRelayout(c, note) ==
    IF c.isInternalUpdate THEN c
    ELSE IF ~HasRangeKey(note) THEN c
    ELSE RestartDebounce(c)

\* ------------------------------------------------------------------------
\*  Detail panels: description fetches (src/app.js lines 1959-1975,
\*  2098-2154, 2596-2609)
\* ------------------------------------------------------------------------

\* line 71, with the fallback of line 1960
COUNTRY_TO_LANG(country) ==
    CASE country = "us" -> "en"
      [] country = "eu" -> "en"
      [] country = "cn" -> "cn"
      [] country = "kr" -> "ko"
      [] OTHER -> "en"

\* the cache key of line 1961
CacheKey(brand, lang, abbr) == <<brand, lang, abbr>>

\* what the server holds under rubbers_description/brand/lang/abbr: the
\* text, or nothing (the response is not ok)
ServerDescription(brand, lang, abbr) ==
    IF brand = "DHS" /\ lang = "cn" THEN Null
    ELSE Some(<<brand, lang, abbr>>)

\* tabContents[tabKey] as updateDetailPanel builds it: the header of the
\* rubber and the parsed description, or the notice that there is none
PanelContent(rubber, markdown) ==
    [header |-> rubber.name, body |-> markdown]

\* selectedRubbers, nextDetailPanel, selectedCountry, tabContents,
\* rubberDescriptionsCache, and the fetches under way, a bag: every call of
\* updateDetailPanel that misses the cache starts a fetch of its own and
\* keeps its panel, its rubber and the language read at the call
NoDetail ==
    [selectedRubbers |-> <<Null, Null>>,
     nextDetailPanel |-> 1,
     selectedCountry |-> "us",
     tabContents |-> <<Null, Null>>,
     cache |-> {},
     fetches |-> EmptyBag]

\* the continuation of updateDetailPanel after the await (lines 2117-2129)
StoreDescription(d, panelNum, rubber, markdown) ==
    [d EXCEPT !.tabContents[panelNum] = Some(PanelContent(rubber, markdown))]

\* updateDetailPanel up to its await: fetchRubberDescriptionMarkdown reads
\* the language and the cache at the call; a cached description is stored
\* before any other event is handled, otherwise one more fetch is under
\* way, also when the same description is being fetched already
updateDetailPanel(d, panelNum, rubber) ==
    LET lang == COUNTRY_TO_LANG(d.selectedCountry)
        cacheKey == CacheKey(rubber.brand, lang, rubber.abbr)
    IN IF cacheKey \in d.cache
       THEN StoreDescription(d, panelNum, rubber,
                             ServerDescription(rubber.brand, lang, rubber.abbr))
       ELSE [d EXCEPT !.fetches = @ (+) SetToBag({[panel |-> panelNum, rubber |-> rubber,
                                                    lang |-> lang]})]

\* the response of one fetch arrives (lines 1967-1974, then 2117-2129):
\* the cache is filled and the call that started this fetch writes its tab;
\* the other fetches, those of the same description included, are still
\* under way
descriptionArrives(d, req) ==
    LET markdown == ServerDescription(req.rubber.brand, req.lang, req.rubber.abbr)
        d1 == [d EXCEPT !.fetches = @ (-) SetToBag({req}),
                        !.cache = @ \cup {CacheKey(req.rubber.brand, req.lang,
                                                   req.rubber.abbr)}]
    IN StoreDescription(d1, req.panel, req.rubber, markdown)

\* handleRubberClick (lines 2144-2154)
handleRubberClick(d, rubber) ==
    LET panelNum == d.nextDetailPanel
        d1 == [d EXCEPT !.nextDetailPanel = IF panelNum = 1 THEN 2 ELSE 1,
                        !.selectedRubbers[panelNum] = Some(rubber)]
    IN updateDetailPanel(d1, panelNum, rubber)

\* the click listener of initCountrySelector (lines 2597-2608)
onCountryClick(d, country) ==
    IF country = d.selectedCountry THEN d
    ELSE LET d1 == [d EXCEPT !.selectedCountry = country]
             d2 == IF IsNull(d1.selectedRubbers[1]) THEN d1
                   ELSE updateDetailPanel(d1, 1, Val(d1.selectedRubbers[1]))
         IN IF IsNull(d2.selectedRubbers[2]) THEN d2
            ELSE updateDetailPanel(d2, 2, Val(d2.selectedRubbers[2]))

\* ------------------------------------------------------------------------
\*  Session steps
\* ------------------------------------------------------------------------

Idle ==
    /\ phase = "ready"
    /\ ~isInternalUpdate
    /\ IsNull(relayoutTimer)
    /\ IsNull(internalUpdateTimer)
    /\ inflight = <<>>
    /\ ~pinch.pinchActive

NoPush == [kind |-> "none", armed |-> FALSE, auto |-> FALSE]

NoZoom == [req |-> Null, res |-> NoRanges]

\* window.location.search as URLSearchParams reads it: each key is absent
\* (Null) or present with its value. brands, rubbers, sheet and control
\* carry the set of their non-empty comma-separated values; hardness and
\* weight carry <<min, max>> as Number.parseFloat reads the two parts, Null
\* for NaN; country, left and right carry the string
NoSearch ==
    [brands |-> Null, rubbers |-> Null, sheet |-> Null, hardness |-> Null, weight |-> Null,
     control |-> Null, country |-> Null, left |-> Null, right |-> Null]

SessionLoad == [raw |-> SessionRaw, rankings |-> SessionRankings, search |-> NoSearch]

NoProbe == [dist |-> Null, visible |-> <<>>, window |-> Null, whole |-> <<>>]

\* no hardness value converted yet
NoConv == [value |-> Null, country |-> "Germany", german |-> Null, back |-> Null, stage |-> 0]

\* initMobilePinchZoom's closure variables as declared (part_001 lines
\* 1792-1797), with the history of the gesture: the window of the last
\* sample that computed one, and the window the gesture pushed last
NoGesture ==
    [pinchStartDist |-> Null, pinchStartRanges |-> Null, pinchStartCenter |-> Null,
     dataAnchor |-> Null, rafId |-> Null, pendingLayout |-> Null,
     stage |-> "none", lastComputed |-> Null, pushed |-> Null, dropped |-> FALSE,
     flushedAtEnd |-> FALSE, samples |-> 0]

Init ==
    /\ phase = "init"
    /\ zoom = NoZoom
    /\ loadIn = SessionLoad
    /\ gesture = NoGesture
    /\ probe = NoProbe
    /\ detail = NoDetail
    /\ conv = NoConv
    /\ filterState = SessionFilters
    /\ rubberData = SessionData
    /\ selectedNames = {SessionData[i].name : i \in 1..Len(SessionData)}
    /\ hasPlotted = FALSE
    /\ isInternalUpdate = FALSE
    /\ relayoutTimer = Null
    /\ burst = NoBurst
    /\ internalUpdateTimer = Null
    /\ currentFilteredData = <<>>
    /\ layoutRange = Null
    /\ drawn = <<>>
    /\ inflight = <<>>
    /\ touches = 0
    /\ pinch = NoPinch
    /\ budget = MaxEvents
    /\ lastEvent = "load"
    /\ lastUser = "none"
    /\ chain = 0
    /\ lastPush = NoPush
    /\ sincePush = [any |-> INTERNAL_UPDATE_MS, guarded |-> INTERNAL_UPDATE_MS]

Fits(c) == Len(c.inflight) <= MaxInflight

\* a user event: one unit of budget, and the recompute chain starts over
User(kind) ==
    /\ phase = "ready"
    /\ inflight = <<>>
    /\ budget > 0
    /\ budget' = budget - 1
    /\ lastUser' = kind
    /\ lastEvent' = kind
    /\ chain' = 0

\* initChart: updateChart(); updateChart({ force: true })
InitChart ==
    /\ phase = "init"
    /\ \E c \in initChart(Ctl, FilteredNow) : Commit(c)
    /\ phase' = "fit"
    /\ lastEvent' = "initChart"
    /\ UNCHANGED <<partVars, rubberData, selectedNames, touches, pinch, budget, lastUser, chain>>

\* the animation-frame callback of initializeApp clicking the fit button
InitFit ==
    /\ phase = "fit"
    /\ Commit(triggerAutoscale(Ctl))
    /\ phase' = "ready"
    /\ lastEvent' = "initFit"
    /\ UNCHANGED <<partVars, rubberData, selectedNames, touches, pinch, budget, lastUser, chain>>

\* one event on a checkbox filter leaves names checked: the All button, the
\* None button (lines 2552-2561), or one checkbox toggled
CheckboxEvent(options, checked, names) ==
    /\ names \subseteq options
    /\ \/ names = options
       \/ names = {}
       \/ Cardinality((names \ checked) \cup (checked \ names)) = 1

\* onFilterChange('name') (lines 2528-2533): the name filter changed, then
\* updateChart()
FilterChange(names) ==
    /\ CheckboxEvent(filterState.nameOptions, selectedNames, names)
    /\ User("filter")
    /\ selectedNames' = names
    /\ \E c \in updateChart(Ctl, getFilteredData(rubberData, names, filterState),
                             FALSE, FALSE) :
          Fits(c) /\ Commit(c)
    /\ UNCHANGED <<partVars, phase, rubberData, touches, pinch>>

ZoomButton(scale, kind) ==
    /\ User(kind)
    /\ LET c == zoomChart(Ctl, scale) IN Fits(c) /\ Commit(c)
    /\ UNCHANGED <<partVars, phase, rubberData, selectedNames, touches, pinch>>

ZoomInButton == ZoomButton(ZOOM_IN, "zoomIn")
ZoomOutButton == ZoomButton(RDiv(One, ZOOM_IN), "zoomOut")

AutoscaleButton ==
    /\ User("autoscale")
    /\ LET c == triggerAutoscale(Ctl) IN Fits(c) /\ Commit(c)
    /\ UNCHANGED <<partVars, phase, rubberData, selectedNames, touches, pinch>>

\* resetAppToInitialState (lines 2493-2496) and resetDetailPanels (line
\* 2133): the selection, the country and the tab contents as declared; the
\* cache and the fetches under way are left as they are
resetDetail(d) ==
    [d EXCEPT !.selectedRubbers = <<Null, Null>>,
              !.nextDetailPanel = 1,
              !.selectedCountry = "us",
              !.tabContents = <<Null, Null>>]

\* resetAppToInitialState (lines 2507-2513)
resetChart(c, filteredData) ==
    IF c.hasPlotted
    THEN updateChart(Push(c, "reset", Autorange(c.drawn), FALSE), filteredData, TRUE, FALSE)
    ELSE updateChart(c, filteredData, FALSE, FALSE)

\* a click on the home logo: resetAppToInitialState (lines 2490-2514)
HomeReset ==
    /\ User("reset")
    /\ detail' = resetDetail(detail)
    /\ LET f == resetFiltersToAll(rubberData, filterState)
       IN /\ filterState' = f.fs
          /\ selectedNames' = f.checked
          /\ \E c \in resetChart(Ctl, getFilteredData(rubberData, f.checked, f.fs)) :
                Fits(c) /\ Commit(c)
    /\ UNCHANGED <<zoom, loadIn, gesture, probe, conv, phase, rubberData, touches, pinch>>

\* the window resize handler (lines 2738-2741): the backend resizes and
\* notifies without any range key, then updateChart({ preserveRanges: true })
onResize(c, filteredData) ==
    LET c1 == [c EXCEPT !.inflight = Append(c.inflight, "autosize")]
    IN IF c.hasPlotted THEN updateChart(c1, filteredData, TRUE, FALSE) ELSE {c1}

Resize ==
    /\ User("resize")
    /\ \E c \in onResize(Ctl, FilteredNow) : Fits(c) /\ Commit(c)
    /\ UNCHANGED <<partVars, phase, rubberData, selectedNames, touches, pinch>>

PanOffsets == {R(1)}

Shift(range, d) == <<RAdd(range[1], d), RAdd(range[2], d)>>

\* the backend's own drag (dragmode: 'pan'): the user moves the window and
\* the backend notifies; no programmatic push
UserPan(d) ==
    /\ ~IsNull(layoutRange)
    /\ touches = 0
    /\ inflight = <<>>
    /\ phase = "ready" /\ budget > 0
    /\ budget' = budget - 1
    /\ lastUser' = IF Idle THEN "pan_idle" ELSE "pan"
    /\ lastEvent' = "pan"
    /\ chain' = 0
    /\ layoutRange' = Some([xaxis |-> Shift(Val(layoutRange).xaxis, d),
                            yaxis |-> Val(layoutRange).yaxis])
    /\ inflight' = Append(inflight, "range")
    /\ UNCHANGED <<partVars, phase, rubberData, selectedNames, hasPlotted, isInternalUpdate,
                   relayoutTimer, internalUpdateTimer, currentFilteredData, drawn,
                   lastPush, sincePush, burst, touches, pinch>>

StartDists == {100}
MoveDists == {50, 200}
Midpoints == {[x |-> 25, y |-> 70]}

TouchStart(dist, mid) ==
    /\ touches = 0
    /\ User("touchstart")
    /\ touches' = 2
    /\ LET r == onTouchStart(Ctl, pinch, dist, mid)
       IN Commit(r.c) /\ pinch' = r.p
    /\ UNCHANGED <<partVars, phase, rubberData, selectedNames>>

TouchMove(dist) ==
    /\ touches = 2
    /\ phase = "ready"
    /\ inflight = <<>>
    /\ LET r == onTouchMove(Ctl, pinch, touches, dist)
       IN /\ Fits(r.c) /\ Commit(r.c) /\ pinch' = r.p
          /\ lastEvent' = IF r.c = Ctl THEN "touchmove_nowindow" ELSE "touchmove"
    /\ lastUser' = IF lastUser \in {"touchmove", "touchmove_again"}
                   THEN "touchmove_again" ELSE "touchmove"
    /\ chain' = 0
    /\ UNCHANGED <<partVars, phase, rubberData, selectedNames, touches, budget>>

TouchEnd ==
    /\ touches = 2
    /\ phase = "ready"
    /\ inflight = <<>>
    /\ touches' = 0
    /\ LET r == onPinchEnd(Ctl, pinch, 0)
       IN Commit(r.c) /\ pinch' = r.p
    /\ lastEvent' = "touchend"
    /\ lastUser' = "touchend"
    /\ chain' = 0
    /\ UNCHANGED <<partVars, phase, rubberData, selectedNames, budget>>

\* the backend delivers its oldest pending notification
Deliver ==
    /\ inflight # <<>>
    /\ LET c == onRelayout([Ctl EXCEPT !.inflight = Tail(inflight)], Head(inflight))
       IN /\ Commit(c)
          /\ lastEvent' = IF isInternalUpdate
                          THEN IF HasRangeKey(Head(inflight))
                               THEN "notify_range_while_armed"
                               ELSE "notify_other_while_armed"
                          ELSE IF HasRangeKey(Head(inflight))
                               THEN "notify_range_while_disarmed"
                               ELSE "notify_other_while_disarmed"
    /\ UNCHANGED <<partVars, phase, rubberData, selectedNames, touches, pinch, budget, lastUser, chain>>

MaxChain == 3

\* the debounce timer fires: updateChart({ preserveRanges: true })
RelayoutTimerFires ==
    /\ relayoutTimer = Some(0)
    /\ inflight = <<>>
    /\ chain < MaxChain
    /\ \E c \in updateChart([Ctl EXCEPT !.relayoutTimer = Null, !.burst = NoBurst],
                             FilteredNow, TRUE, FALSE) :
          Fits(c) /\ Commit(c)
    /\ chain' = chain + 1
    /\ lastEvent' = "relayout_recompute"
    /\ UNCHANGED <<partVars, phase, rubberData, selectedNames, touches, pinch, budget, lastUser>>

\* the disarm timer fires: isInternalUpdate = false
InternalUpdateTimerFires ==
    /\ internalUpdateTimer = Some(0)
    /\ inflight = <<>>
    /\ isInternalUpdate' = FALSE
    /\ internalUpdateTimer' = Null
    /\ lastEvent' = "disarm"
    /\ UNCHANGED <<partVars, phase, rubberData, selectedNames, hasPlotted, relayoutTimer,
                   currentFilteredData, layoutRange, drawn, inflight, lastPush, sincePush, burst,
                   touches, pinch, budget, lastUser, chain>>

Elapse(t) == IF IsNull(t) THEN t ELSE Some(Val(t) - TickMs)
Aged(ms) == IF ms + TickMs > INTERNAL_UPDATE_MS THEN INTERNAL_UPDATE_MS ELSE ms + TickMs

\* time passes: every notification has been delivered (the backend emits
\* them as soon as the pushing handler returns) and no timer is due
Tick ==
    /\ phase = "ready"
    /\ inflight = <<>>
    /\ relayoutTimer # Some(0)
    /\ internalUpdateTimer # Some(0)
    /\ ~IsNull(relayoutTimer) \/ ~IsNull(internalUpdateTimer)
          \/ sincePush.any < INTERNAL_UPDATE_MS \/ sincePush.guarded < INTERNAL_UPDATE_MS
    /\ relayoutTimer' = Elapse(relayoutTimer)
    /\ internalUpdateTimer' = Elapse(internalUpdateTimer)
    /\ sincePush' = [any |-> Aged(sincePush.any), guarded |-> Aged(sincePush.guarded)]
    /\ burst' = IF IsNull(relayoutTimer) THEN burst
                ELSE [burst EXCEPT !.since = @ + TickMs]
    /\ lastEvent' = "tick"
    /\ UNCHANGED <<partVars, phase, rubberData, selectedNames, hasPlotted, isInternalUpdate,
                   currentFilteredData, layoutRange, drawn, inflight, lastPush,
                   touches, pinch, budget, lastUser, chain>>

Next ==
    \/ InitChart
    \/ InitFit
    \/ \E names \in FilterChoices : FilterChange(names)
    \/ ZoomInButton
    \/ ZoomOutButton
    \/ AutoscaleButton
    \/ HomeReset
    \/ Resize
    \/ \E d \in PanOffsets : UserPan(d)
    \/ \E dist \in StartDists, mid \in Midpoints : TouchStart(dist, mid)
    \/ \E dist \in MoveDists : TouchMove(dist)
    \/ TouchEnd
    \/ Deliver
    \/ RelayoutTimerFires
    \/ InternalUpdateTimerFires
    \/ Tick

Spec == Init /\ [][Next]_vars

\* The steps of the scheduled actions, each told by the variables it alone
\* changes in that way and enabled exactly when the action is
InitChartStep == phase = "init" /\ phase' = "fit"
InitFitStep == phase = "fit" /\ phase' = "ready"
DeliverStep == inflight # <<>> /\ inflight' = Tail(inflight)
TickStep ==
    /\ phase = "ready"
    /\ inflight = <<>>
    /\ relayoutTimer # Some(0)
    /\ internalUpdateTimer # Some(0)
    /\ ~IsNull(relayoutTimer) \/ ~IsNull(internalUpdateTimer)
          \/ sincePush.any < INTERNAL_UPDATE_MS \/ sincePush.guarded < INTERNAL_UPDATE_MS
    /\ relayoutTimer' = Elapse(relayoutTimer)
    /\ internalUpdateTimer' = Elapse(internalUpdateTimer)
    /\ sincePush' = [any |-> Aged(sincePush.any), guarded |-> Aged(sincePush.guarded)]
DisarmTimerStep ==
    /\ internalUpdateTimer = Some(0)
    /\ inflight = <<>>
    /\ internalUpdateTimer' = Null
    /\ isInternalUpdate' = FALSE
DebounceTimerStep ==
    /\ relayoutTimer = Some(0)
    /\ inflight = <<>>
    /\ chain < MaxChain
    /\ chain' = chain + 1
TouchEndStep ==
    /\ touches = 2
    /\ phase = "ready"
    /\ inflight = <<>>
    /\ touches' = 0

\* The session without the zoom, autoscale and reset buttons, which neither
\* arm the guard nor start a timer that updateChart does not start as well
NextGesture ==
    \/ InitChart
    \/ InitFit
    \/ \E names \in FilterChoices : FilterChange(names)
    \/ Resize
    \/ \E d \in PanOffsets : UserPan(d)
    \/ \E dist \in StartDists, mid \in Midpoints : TouchStart(dist, mid)
    \/ \E dist \in MoveDists : TouchMove(dist)
    \/ TouchEnd
    \/ Deliver
    \/ RelayoutTimerFires
    \/ InternalUpdateTimerFires
    \/ Tick

SpecGesture == Init /\ [][NextGesture]_vars

\* The session without touch gestures
NextView ==
    \/ InitChart
    \/ InitFit
    \/ \E names \in FilterChoices : FilterChange(names)
    \/ ZoomInButton
    \/ ZoomOutButton
    \/ AutoscaleButton
    \/ HomeReset
    \/ Resize
    \/ \E d \in PanOffsets : UserPan(d)
    \/ Deliver
    \/ RelayoutTimerFires
    \/ InternalUpdateTimerFires
    \/ Tick

SpecView == Init /\ [][NextView]_vars

\* The session under the browser's scheduling: initialisation and its
\* animation frame run, a notification the backend has emitted is delivered,
\* time passes, a timer that is due runs its callback, and a pinch gesture
\* ends (the fingers are lifted at some time).
SpecFair ==
    /\ SpecGesture
    /\ WF_phase(InitChartStep)
    /\ WF_phase(InitFitStep)
    /\ WF_inflight(DeliverStep)
    /\ WF_<<relayoutTimer, internalUpdateTimer, sincePush>>(TickStep)
    /\ WF_<<internalUpdateTimer, isInternalUpdate>>(DisarmTimerStep)
    /\ WF_chain(DebounceTimerStep)
    /\ SF_touches(TouchEndStep)

\* ------------------------------------------------------------------------
\*  The notification handler under an open backend: the backend may emit
\*  plotly_relayout at any moment, with or without a range key, and several
\*  times for one gesture (src/app.js lines 1689-1705)
\* ------------------------------------------------------------------------

NotificationKinds == { "range", "autosize" }

\* the backend emits a notification of its own accord
BackendNotify(note) ==
    /\ User("backend")
    /\ inflight' = Append(inflight, note)
    /\ UNCHANGED <<partVars, phase, rubberData, selectedNames, hasPlotted, isInternalUpdate,
                   relayoutTimer, internalUpdateTimer, currentFilteredData, layoutRange,
                   drawn, lastPush, sincePush, burst, touches, pinch>>

NextRelayout ==
    \/ InitChart
    \/ InitFit
    \/ \E note \in NotificationKinds : BackendNotify(note)
    \/ Deliver
    \/ RelayoutTimerFires
    \/ InternalUpdateTimerFires
    \/ Tick

SpecRelayout == Init /\ [][NextRelayout]_vars


\* ------------------------------------------------------------------------
\*  The zoom engine on its own: computeZoomedRanges applied, as zoomChart and
\*  the pinch handler apply it, to windows the user can pan and zoom to
\* ------------------------------------------------------------------------

\* one-axis windows [lo, lo + span]: wide, ordinary, beside the data, and
\* thin ones (an empty filter leaves zoom-in unlimited, lines 1849-1859)
ZoomAxisWindows ==
    { <<R(0), R(6)>>, <<R(1), R(5)>>, <<R(2), R(3)>>, <<R(3), R(5)>>,
      <<Frac(3, 2), Frac(9, 2)>>, <<Frac(7, 2), Frac(9, 2)>>,
      <<Frac(7, 4), Frac(17, 4)>>, <<Frac(99, 50), Frac(101, 50)>>,
      <<Frac(112, 25), Frac(113, 25)>> }

ZoomWindows == { [xaxis |-> xr, yaxis |-> yr] :
                   xr \in ZoomAxisWindows,
                   yr \in { <<R(0), R(4)>>, <<R(1), R(3)>>, <<Frac(99, 50), Frac(101, 50)>> } }

ZoomDataSets ==
    { getFilteredData(SessionData, AllNames, SessionFilters),
      getFilteredData(SessionData, {"Dignics 09C"}, SessionFilters),
      getFilteredData(SessionData, {}, SessionFilters) }

\* the scales of the two zoom buttons (lines 2581-2583)
ZoomScales == { ZOOM_IN, RDiv(One, ZOOM_IN) }

\* finger distances of a pinch, giving the scales 3, 5/3, 3/5 and 1/10, and
\* touch midpoints, giving the anchors (1/2, 1/2), (0, 1) and (1/4, 4/5)
ZoomStartDists == { 300 }
ZoomMoveDists == { 100, 180, 500, 3000 }
ZoomMidpoints == { [x |-> 50, y |-> 20], [x |-> 0, y |-> 0], [x |-> 25, y |-> 8] }

InitZoom ==
    /\ phase = "ready"
    /\ zoom = NoZoom
    /\ loadIn = SessionLoad
    /\ gesture = NoGesture
    /\ probe = NoProbe
    /\ detail = NoDetail
    /\ conv = NoConv
    /\ filterState = SessionFilters
    /\ rubberData = SessionData
    /\ selectedNames = AllNames
    /\ hasPlotted = TRUE
    /\ isInternalUpdate = FALSE
    /\ relayoutTimer = Null
    /\ burst = NoBurst
    /\ internalUpdateTimer = Null
    /\ currentFilteredData \in ZoomDataSets
    /\ layoutRange \in { Some(w) : w \in ZoomWindows }
    /\ drawn = currentFilteredData
    /\ inflight = <<>>
    /\ touches = 0
    /\ pinch = NoPinch
    /\ budget = 0
    /\ lastEvent = "load"
    /\ lastUser = "none"
    /\ chain = 0
    /\ lastPush = NoPush
    /\ sincePush = [any |-> INTERNAL_UPDATE_MS, guarded |-> INTERNAL_UPDATE_MS]

ZoomFrame ==
    UNCHANGED <<detail, phase, rubberData, selectedNames, budget, lastUser, chain,
                loadIn, gesture, probe, conv, filterState>>

\* a click on a zoom button: zoomChart (lines 1884-1898), which pushes the
\* window computeZoomedRanges returns, if it returns one. One request is
\* made of each starting window.
ZoomStep(scale) ==
    /\ IsNull(zoom.req)
    /\ touches = 0
    /\ LET cur == Val(layoutRange)
       IN zoom' = [req |-> Some([xRange |-> cur.xaxis, yRange |-> cur.yaxis, scale |-> scale,
                                 fx |-> Half, fy |-> Half]),
                   res |-> ZoomRequest(Ctl, scale)]
    /\ Commit(zoomChart(Ctl, scale))
    /\ lastEvent' = "zoom"
    /\ UNCHANGED <<touches, pinch>>
    /\ ZoomFrame

\* two fingers go down on the chart (lines 1732-1758)
ZoomTouchStart(dist, mid) ==
    /\ IsNull(zoom.req)
    /\ touches = 0
    /\ touches' = 2
    /\ LET r == onTouchStart(Ctl, pinch, dist, mid)
       IN Commit(r.c) /\ pinch' = r.p
    /\ lastEvent' = "touchstart"
    /\ UNCHANGED zoom
    /\ ZoomFrame

\* the fingers move (lines 1760-1792): the request is made of the window
\* recorded at touch start
ZoomTouchMove(dist) ==
    /\ IsNull(zoom.req)
    /\ touches = 2
    /\ zoom' = [req |-> Some([xRange |-> Val(pinch.pinchStartXRange),
                              yRange |-> Val(pinch.pinchStartYRange),
                              scale |-> RDiv(R(Val(pinch.pinchStartDist)), R(dist)),
                              fx |-> pinch.pinchAnchorFx, fy |-> pinch.pinchAnchorFy]),
                res |-> PinchRanges(Ctl, pinch, dist)]
    /\ LET r == onTouchMove(Ctl, pinch, touches, dist)
       IN Commit(r.c) /\ pinch' = r.p
    /\ lastEvent' = "touchmove"
    /\ UNCHANGED touches
    /\ ZoomFrame

NextZoom ==
    \/ \E scale \in ZoomScales : ZoomStep(scale)
    \/ \E dist \in ZoomStartDists, mid \in ZoomMidpoints : ZoomTouchStart(dist, mid)
    \/ \E dist \in ZoomMoveDists : ZoomTouchMove(dist)

SpecZoom == InitZoom /\ [][NextZoom]_vars

\* ------------------------------------------------------------------------
\*  The zoom-out button pressed again and again (zoomChart(1 / ZOOM_IN),
\*  src/app.js lines 1884-1898 and 2582-2583)
\* ------------------------------------------------------------------------

MaxZoomOuts == 6

\* starting windows: around, inside, across an edge of, and beside the
\* autoscale bounds
ZoomOutWindows ==
    { [xaxis |-> xr, yaxis |-> yr] :
        xr \in { <<R(0), R(6)>>, <<R(1), R(5)>>, <<R(2), R(3)>>, <<R(3), R(5)>>,
                 <<Frac(7, 2), Frac(9, 2)>>, <<R(5), R(6)>> },
        yr \in { <<R(0), R(4)>>, <<R(1), R(3)>>, <<R(2), R(3)>> } }

InitZoomOut ==
    /\ phase = "ready"
    /\ zoom = NoZoom
    /\ loadIn = SessionLoad
    /\ gesture = NoGesture
    /\ probe = NoProbe
    /\ detail = NoDetail
    /\ conv = NoConv
    /\ filterState = SessionFilters
    /\ rubberData = SessionData
    /\ selectedNames = AllNames
    /\ hasPlotted = TRUE
    /\ isInternalUpdate = FALSE
    /\ relayoutTimer = Null
    /\ burst = NoBurst
    /\ internalUpdateTimer = Null
    /\ currentFilteredData \in ZoomDataSets
    /\ layoutRange \in { Some(w) : w \in ZoomOutWindows }
    /\ drawn = currentFilteredData
    /\ inflight = <<>>
    /\ touches = 0
    /\ pinch = NoPinch
    /\ budget = MaxZoomOuts
    /\ lastEvent = "load"
    /\ lastUser = "none"
    /\ chain = 0
    /\ lastPush = NoPush
    /\ sincePush = [any |-> INTERNAL_UPDATE_MS, guarded |-> INTERNAL_UPDATE_MS]

\* a click on the zoom-out button: zoomChart(1 / ZOOM_IN), once the
\* notification of the click before has been delivered
ZoomOutPress ==
    /\ budget > 0
    /\ inflight = <<>>
    /\ budget' = budget - 1
    /\ LET cur == Val(layoutRange)
           scale == RDiv(One, ZOOM_IN)
       IN zoom' = [req |-> Some([xRange |-> cur.xaxis, yRange |-> cur.yaxis, scale |-> scale,
                                 fx |-> Half, fy |-> Half]),
                   res |-> ZoomRequest(Ctl, scale)]
    /\ Commit(zoomChart(Ctl, RDiv(One, ZOOM_IN)))
    /\ lastEvent' = "zoomOut"
    /\ UNCHANGED <<detail, phase, rubberData, selectedNames, touches, pinch, lastUser, chain,
                   loadIn, gesture, probe, conv, filterState>>

NextZoomOut == ZoomOutPress \/ Deliver

\* a press, seen from the count of presses alone: it is the only step that
\* counts down
Pressing == budget > 0 /\ inflight = <<>> /\ budget' = budget - 1

\* the user keeps pressing, and the backend delivers its notifications
SpecZoomOut ==
    /\ InitZoomOut /\ [][NextZoomOut]_vars
    /\ WF_budget(Pressing)
    /\ WF_inflight(DeliverStep)

\* ------------------------------------------------------------------------
\*  Catalog loading on its own: loadRubberData over fetched catalogs and
\*  rank tables, followed by the first render
\* ------------------------------------------------------------------------

MaxRankLen == 2

RankEntries == { E("Butterfly", "T05"), E(" butterfly ", "Dignics 09C"),
                 E("dhs", "Hurricane 3"), E("Xiom", "Tenergy 05") }

RankTables == UNION { [1..n -> RankEntries] : n \in 0..MaxRankLen }

CatalogChoices == { SessionRaw, <<RawH3, RawT05>>, <<RawD09C>> }

\* query strings of the page address
Searches ==
    { [NoSearch EXCEPT !.rubbers = Some({"Tenergy 05"})],
      [NoSearch EXCEPT !.brands = Some({"DHS"})],
      [NoSearch EXCEPT !.brands = Some({}), !.country = Some("xx")],
      [NoSearch EXCEPT !.country = Some("cn")],
      [NoSearch EXCEPT !.left = Some("Hurricane 3")],
      [NoSearch EXCEPT !.left = Some("Hurricane 3"), !.right = Some("Tenergy 05"),
                       !.country = Some("eu")],
      [NoSearch EXCEPT !.left = Some("Vega Pro")],
      [NoSearch EXCEPT !.right = Some("Dignics 09C"), !.control = Some({"Expert"})],
      [NoSearch EXCEPT !.sheet = Some({"Hybrid", "Chinese"}),
                       !.hardness = Some(<<Some(R(50)), Some(R(60))>>),
                       !.weight = Some(<<Null, Some(R(70))>>),
                       !.control = Some({"Hard", "Expert"})],
      [NoSearch EXCEPT !.rubbers = Some({"Tenergy 05", "Vega Pro"}),
                       !.weight = Some(<<Some(R(70)), Some(R(69))>>),
                       !.control = Some({"Easy", "Med"})] }

\* the fetched files and the page address: every rank table with an empty
\* query string, and every query string with the session's rank tables
LoadInputs ==
    { [raw |-> raw,
       rankings |-> [spin |-> spin, speed |-> speed, control |-> SessionRankings.control,
                     priority |-> SessionRankings.priority, bestseller |-> bestseller],
       search |-> NoSearch] :
        raw \in CatalogChoices, spin \in RankTables, speed \in RankTables,
        bestseller \in { <<>>, SessionRankings.bestseller } }
    \cup { [raw |-> raw, rankings |-> SessionRankings, search |-> search] :
             raw \in CatalogChoices, search \in Searches }

\* deserializeFilterParam (lines 1028-1036): each checkbox is checked when
\* its value is among the values of the parameter
deserializeFilterParam(search, paramName, options, checked) ==
    IF IsNull(search[paramName]) THEN checked
    ELSE options \cap Val(search[paramName])

\* deserializeHardnessRangeParam / deserializeWeightRangeParam (lines
\* 1043-1051, 1058-1066)
deserializeRangeParam(search, paramName, state) ==
    IF IsNull(search[paramName]) THEN state
    ELSE LET min == Val(search[paramName])[1]
             max == Val(search[paramName])[2]
         IN IF IsNull(min) \/ IsNull(max) THEN state
            ELSE setRange(state, Val(min), Val(max))

\* deserializeControlRangeParam (lines 1073-1079)
deserializeControlRangeParam(search, control) ==
    IF IsNull(search.control) THEN control
    ELSE LET tiers == Val(search.control) \cap CONTROL_TIERS
         IN IF tiers = {} THEN control ELSE [control EXCEPT !.selectedTiers = tiers]

\* rubberData.find(r => r.fullName === name): Null or Some(rubber)
RECURSIVE FindByFullName(_, _)
FindByFullName(data, name) ==
    IF data = <<>> THEN Null
    ELSE IF Head(data).name = name THEN Some(Head(data))
    ELSE FindByFullName(Tail(data), name)

\* the restoring of a detail panel (lines 1130-1146)
RestorePanel(d, data, search, key, panelNum) ==
    IF IsNull(search[key]) THEN d
    ELSE LET rubber == FindByFullName(data, Val(search[key]))
         IN IF IsNull(rubber) THEN d
            ELSE LET d1 == [d EXCEPT !.selectedRubbers[panelNum] = rubber]
                     d2 == updateDetailPanel(d1, panelNum, Val(rubber))
                 IN IF panelNum = 2 THEN [d2 EXCEPT !.nextDetailPanel = 1] ELSE d2

\* applyFiltersFromUrl (lines 1101-1156) on the filter panel fs with the
\* names checked and the detail panels d
applyFiltersFromUrl(search, data, fs, checked, d) ==
    IF search = NoSearch THEN [fs |-> fs, checked |-> checked, d |-> d]
    ELSE LET d1 == IF ~IsNull(search.country) /\ Val(search.country) \in {"us", "eu", "kr", "cn"}
                   THEN [d EXCEPT !.selectedCountry = Val(search.country)]
                   ELSE d
             fs1 == [fs EXCEPT
                        !.brands = deserializeFilterParam(search, "brands", fs.brandOptions, @),
                        !.sheets = deserializeFilterParam(search, "sheet", SHEETS, @),
                        !.hardness = deserializeRangeParam(search, "hardness", @),
                        !.weight = deserializeRangeParam(search, "weight", @),
                        !.control = deserializeControlRangeParam(search, @)]
             f == buildNameOptionsFromFilters(data, fs1, checked)
             d2 == RestorePanel(d1, data, search, "left", 1)
             d3 == RestorePanel(d2, data, search, "right", 2)
         IN [fs |-> f.fs,
             checked |-> deserializeFilterParam(search, "rubbers", f.fs.nameOptions, f.checked),
             d |-> IF ~IsNull(search.left) /\ IsNull(search.right)
                   THEN [d3 EXCEPT !.nextDetailPanel = 2]
                   ELSE d3]

InitLoad ==
    /\ phase = "loading"
    /\ loadIn \in LoadInputs
    /\ zoom = NoZoom
    /\ gesture = NoGesture
    /\ probe = NoProbe
    /\ detail = NoDetail
    /\ conv = NoConv
    /\ filterState = NoFilters
    /\ rubberData = <<>>
    /\ selectedNames = {}
    /\ hasPlotted = FALSE
    /\ isInternalUpdate = FALSE
    /\ relayoutTimer = Null
    /\ burst = NoBurst
    /\ internalUpdateTimer = Null
    /\ currentFilteredData = <<>>
    /\ layoutRange = Null
    /\ drawn = <<>>
    /\ inflight = <<>>
    /\ touches = 0
    /\ pinch = NoPinch
    /\ budget = 0
    /\ lastEvent = "none"
    /\ lastUser = "none"
    /\ chain = 0
    /\ lastPush = NoPush
    /\ sincePush = [any |-> INTERNAL_UPDATE_MS, guarded |-> INTERNAL_UPDATE_MS]

\* initializeApp up to initChart (lines 2743-2782): loadRubberData; with an
\* empty rubberData the error message is shown and nothing else runs,
\* otherwise the filter panel is built with every name checked, and
\* applyFiltersFromUrl restores what the page address carries
LoadRubberData ==
    /\ phase = "loading"
    /\ rubberData' = LoadedRubberData(loadIn.raw, loadIn.rankings)
    /\ LET f == initFilters(rubberData')
           a == applyFiltersFromUrl(loadIn.search, rubberData', f.fs, f.checked, detail)
       IN IF Len(rubberData') = 0
          THEN phase' = "failed" /\ UNCHANGED <<filterState, selectedNames, detail>>
          ELSE /\ phase' = "init"
               /\ filterState' = a.fs
               /\ selectedNames' = a.checked
               /\ detail' = a.d
    /\ lastEvent' = "load"
    /\ UNCHANGED <<ctlVars, zoom, loadIn, gesture, probe, conv,
                   touches, pinch, budget, lastUser, chain>>

NextLoad == LoadRubberData \/ InitChart

SpecLoad == InitLoad /\ [][NextLoad]_vars

\* ------------------------------------------------------------------------
\*  The coalesced pinch of initMobilePinchZoom (part_001 lines 1790-1911):
\*  touch-move samples leave a pending window that the next animation frame
\*  pushes; touch end flushes it
\* ------------------------------------------------------------------------

MaxSamples == 3
MaxTouches == 3

\* the plot area inside the chart element (chartEl._fullLayout._size)
PlotArea == [l |-> 10, t |-> 10, w |-> PlotSize.w, h |-> PlotSize.h]

\* getPlotFraction (part_001 lines 1755-1763), the chart element at the origin
getPlotFraction(clientX, clientY) ==
    [fx |-> RMax(Zero, RMin(One, Frac(clientX - PlotArea.l, PlotArea.w))),
     fy |-> RMax(Zero, RMin(One, RSub(One, Frac(clientY - PlotArea.t, PlotArea.h))))]

\* computeZoomedRanges as the trackpad listener calls it (part_001 lines
\* 1531-1556): the scale is taken as given, without a minimum span
trackpadZoomedRanges(xRange, yRange, scale, anchorFx, anchorFy, filtered) ==
    LET xSpan == Span(xRange)
        ySpan == Span(yRange)
        autoscaleBounds == getAutoscaleBounds(filtered)
    IN IF RLe(xSpan, Zero) \/ RLe(ySpan, Zero) THEN NoRanges
       ELSE IF ZoomOutRefused(xRange, yRange, scale, filtered) THEN NoRanges
       ELSE LET new == RescaledRanges(xRange, yRange, scale, anchorFx, anchorFy)
            IN IF RGt(scale, One) /\ ~IsNull(autoscaleBounds)
               THEN Ranges(clampRangeToBounds(new.xRange, Val(autoscaleBounds).x),
                           clampRangeToBounds(new.yRange, Val(autoscaleBounds).y))
               ELSE new

\* the wheel listener of initTrackpadZoom with the control key set (part_001
\* lines 1768-1785): scale = 1 + deltaY * 0.01 about the pointer
onWheel(c, deltaY, pos) ==
    LET frac == getPlotFraction(pos.x, pos.y)
        ranges == trackpadZoomedRanges(Val(c.layoutRange).xaxis, Val(c.layoutRange).yaxis,
                                       Frac(100 + deltaY, 100), frac.fx, frac.fy,
                                       c.currentFilteredData)
    IN IF ranges.ok THEN applyZoomLayout(c, ranges, "wheel", FALSE) ELSE c

\* ---- numbers that are not finite: Infinity, -Infinity and NaN ----

PosInf == <<1, 0>>
NegInf == <<-1, 0>>
NaN == <<0, 0>>

XFinite(a) == a[2] # 0
XSign(a) == IF a[1] > 0 THEN 1 ELSE IF a[1] < 0 THEN -1 ELSE 0
XNeg(a) == <<-a[1], a[2]>>

\* a / b of two distances (non-negative numbers)
XDiv(a, b) == IF b # 0 THEN Frac(a, b) ELSE IF a = 0 THEN NaN ELSE PosInf

XMul(a, b) ==
    IF a = NaN \/ b = NaN THEN NaN
    ELSE IF XFinite(a) /\ XFinite(b) THEN RMul(a, b)
    ELSE IF XSign(a) * XSign(b) = 0 THEN NaN
    ELSE IF XSign(a) * XSign(b) > 0 THEN PosInf ELSE NegInf

XAdd(a, b) ==
    IF a = NaN \/ b = NaN THEN NaN
    ELSE IF XFinite(a) /\ XFinite(b) THEN RAdd(a, b)
    ELSE IF XFinite(a) THEN b
    ELSE IF XFinite(b) THEN a
    ELSE IF a = b THEN a ELSE NaN

XSub(a, b) == XAdd(a, XNeg(b))

\* a > b; false when either is NaN
XGt(a, b) ==
    IF a = NaN \/ b = NaN THEN FALSE
    ELSE IF XFinite(a) /\ XFinite(b) THEN RGt(a, b)
    ELSE IF a = PosInf THEN b # PosInf
    ELSE IF a = NegInf THEN FALSE
    ELSE b = NegInf

\* Math.max and Math.min: NaN when either is NaN
XMax(a, b) == IF a = NaN \/ b = NaN THEN NaN ELSE IF XGt(a, b) THEN a ELSE b
XMin(a, b) == IF a = NaN \/ b = NaN THEN NaN ELSE IF XGt(a, b) THEN b ELSE a

\* clampRangeToBounds on numbers that need not be finite
XClampRangeToBounds(range, bounds) ==
    <<XMax(range[1], bounds[1]), XMin(range[2], bounds[2])>>

FiniteWindow(w) ==
    /\ XFinite(w.xaxis[1]) /\ XFinite(w.xaxis[2])
    /\ XFinite(w.yaxis[1]) /\ XFinite(w.yaxis[2])

\* ---- the listeners of initMobilePinchZoom ----

\* flushLayout (part_001 lines 1810-1815): Plotly.relayout of the pending
\* window, with the guard and the timers left as they are
flushLayout(g, c) ==
    IF IsNull(g.pendingLayout)
    THEN [g |-> [g EXCEPT !.rafId = Null], c |-> c]
    ELSE [g |-> [g EXCEPT !.rafId = Null, !.pendingLayout = Null,
                          !.pushed = g.pendingLayout],
          c |-> Push(c, "frame", Val(g.pendingLayout), FALSE)]

\* a scheduler that keeps the window already pending
scheduleLayoutKeepsPending(g, layout) ==
    [g EXCEPT !.pendingLayout = IF IsNull(g.pendingLayout) THEN Some(layout)
                                ELSE g.pendingLayout,
              !.rafId = IF IsNull(g.rafId) THEN Some(1) ELSE g.rafId,
              !.lastComputed = Some(layout),
              !.dropped = g.dropped \/ ~IsNull(g.pendingLayout)]

\* scheduleLayout (part_001 lines 1817-1820); rafId is the handle of the one
\* requested frame
scheduleLayout(g, layout) ==
    [g EXCEPT !.pendingLayout = Some(layout),
              !.rafId = IF IsNull(g.rafId) THEN Some(1) ELSE g.rafId,
              !.lastComputed = Some(layout),
              !.dropped = g.dropped \/ ~IsNull(g.pendingLayout)]

\* the touchstart listener (part_001 lines 1822-1848), nTouches fingers down
\* on the backend's window w
pinchTouchStart(g, w, nTouches, dist, center) ==
    IF nTouches # 2 THEN g
    ELSE LET cur == Val(w)
             xSpan == Span(cur.xaxis)
             ySpan == Span(cur.yaxis)
             frac == getPlotFraction(center.x, center.y)
         IN [g EXCEPT !.pinchStartDist = Some(dist),
                      !.pinchStartCenter = Some(center),
                      !.pinchStartRanges = Some([x |-> cur.xaxis, y |-> cur.yaxis,
                                                 xSpan |-> xSpan, ySpan |-> ySpan]),
                      !.dataAnchor = Some([x |-> RAdd(cur.xaxis[1], RMul(frac.fx, xSpan)),
                                           y |-> RAdd(cur.yaxis[1], RMul(frac.fy, ySpan)),
                                           fx |-> frac.fx, fy |-> frac.fy]),
                      !.stage = "active",
                      !.lastComputed = Null,
                      !.pushed = Null,
                      !.dropped = FALSE,
                      !.flushedAtEnd = FALSE]

\* the window a touch-move sample asks for (part_001 lines 1857-1891); the
\* scale is Infinity when the fingers meet
pinchSampleWindow(g, scale, center, filtered) ==
    LET start == Val(g.pinchStartRanges)
        anchor == Val(g.dataAnchor)
        newXSpan == XMul(start.xSpan, scale)
        newYSpan == XMul(start.ySpan, scale)
        autoscaleBounds == getAutoscaleBounds(filtered)
        centerDx == center.x - Val(g.pinchStartCenter).x
        centerDy == center.y - Val(g.pinchStartCenter).y
        dataDx == XMul(XNeg(Frac(centerDx, PlotArea.w)), newXSpan)
        dataDy == XMul(Frac(centerDy, PlotArea.h), newYSpan)
        newXRange == <<XAdd(XSub(anchor.x, XMul(anchor.fx, newXSpan)), dataDx),
                       XAdd(XAdd(anchor.x, XMul(RSub(One, anchor.fx), newXSpan)), dataDx)>>
        newYRange == <<XAdd(XSub(anchor.y, XMul(anchor.fy, newYSpan)), dataDy),
                       XAdd(XAdd(anchor.y, XMul(RSub(One, anchor.fy), newYSpan)), dataDy)>>
    IN IF XGt(scale, One) /\ ~IsNull(autoscaleBounds)
       THEN [xaxis |-> XClampRangeToBounds(newXRange, Val(autoscaleBounds).x),
             yaxis |-> XClampRangeToBounds(newYRange, Val(autoscaleBounds).y)]
       ELSE [xaxis |-> newXRange, yaxis |-> newYRange]

\* the touchmove listener (part_001 lines 1850-1899); a start distance of 0
\* is as good as none
pinchTouchMove(g, nTouches, currentDist, center, filtered) ==
    IF \/ nTouches # 2
       \/ IsNull(g.pinchStartDist) \/ Val(g.pinchStartDist) = 0
       \/ IsNull(g.pinchStartRanges)
       \/ IsNull(g.dataAnchor)
    THEN g
    ELSE LET scale == XDiv(Val(g.pinchStartDist), currentDist)
             start == Val(g.pinchStartRanges)
         IN IF /\ XGt(scale, One)
               /\ ~IsNull(getAutoscaleBounds(filtered))
               /\ viewCoversDataBounds(filtered, start.x, start.y)
            THEN g
            ELSE scheduleLayout(g, pinchSampleWindow(g, scale, center, filtered))

pinchTouchEndDropsPending(g, c, nTouches) ==
    IF nTouches >= 2 THEN [g |-> g, c |-> c]
    ELSE [g |-> [g EXCEPT !.rafId = Null, !.pendingLayout = Null,
                          !.pinchStartDist = Null, !.pinchStartRanges = Null,
                          !.pinchStartCenter = Null, !.dataAnchor = Null,
                          !.stage = IF g.stage = "active" THEN "ended" ELSE g.stage],
          c |-> c]

\* the touchend listener (part_001 lines 1901-1910), nTouches fingers left:
\* the requested frame is cancelled and the pending window pushed at once
pinchTouchEnd(g, c, nTouches) ==
    IF nTouches >= 2 THEN [g |-> g, c |-> c]
    ELSE [g |-> [g EXCEPT !.rafId = Null, !.pendingLayout = Null,
                          !.pinchStartDist = Null, !.pinchStartRanges = Null,
                          !.pinchStartCenter = Null, !.dataAnchor = Null,
                          !.stage = IF g.stage = "active" THEN "ended" ELSE g.stage,
                          !.pushed = IF IsNull(g.pendingLayout) THEN g.pushed
                                     ELSE g.pendingLayout,
                          !.flushedAtEnd = g.stage = "active" /\ ~IsNull(g.pendingLayout)],
          c |-> IF IsNull(g.pendingLayout) THEN c
                ELSE Push(c, "touchend", Val(g.pendingLayout), FALSE)]

PinchCenters == { [x |-> 35, y |-> 30], [x |-> 60, y |-> 20] }

\* touch starts and samples: finger distance and touch centre, among them
\* the fingers on one point
PinchStarts == { [dist |-> 100, center |-> [x |-> 35, y |-> 30]],
                 [dist |-> 100, center |-> [x |-> 60, y |-> 20]],
                 [dist |-> 0, center |-> [x |-> 35, y |-> 30]] }
PinchMoves == { [dist |-> 50, center |-> [x |-> 35, y |-> 30]],
                [dist |-> 200, center |-> [x |-> 60, y |-> 20]],
                [dist |-> 0, center |-> [x |-> 35, y |-> 30]] }

\* wheel events: deltaY and pointer position
WheelEvents == { [deltaY |-> -50, pos |-> [x |-> 35, y |-> 30]],
                 [deltaY |-> 100, pos |-> [x |-> 60, y |-> 20]] }

InitPinch ==
    /\ phase = "ready"
    /\ zoom = NoZoom
    /\ loadIn = SessionLoad
    /\ gesture = NoGesture
    /\ probe = NoProbe
    /\ detail = NoDetail
    /\ conv = NoConv
    /\ filterState = SessionFilters
    /\ rubberData = SessionData
    /\ selectedNames = AllNames
    /\ hasPlotted = TRUE
    /\ isInternalUpdate = FALSE
    /\ relayoutTimer = Null
    /\ burst = NoBurst
    /\ internalUpdateTimer = Null
    /\ currentFilteredData \in { SessionData, <<>> }
    /\ layoutRange \in { Some([xaxis |-> <<R(1), R(5)>>, yaxis |-> <<R(0), R(4)>>]),
                         Some([xaxis |-> <<R(2), R(3)>>, yaxis |-> <<R(1), R(3)>>]) }
    /\ drawn = currentFilteredData
    /\ inflight = <<>>
    /\ touches = 0
    /\ pinch = NoPinch
    /\ budget = 0
    /\ lastEvent = "load"
    /\ lastUser = "none"
    /\ chain = 0
    /\ lastPush = NoPush
    /\ sincePush = [any |-> INTERNAL_UPDATE_MS, guarded |-> INTERNAL_UPDATE_MS]

PinchFrame ==
    UNCHANGED <<detail, phase, rubberData, selectedNames, pinch, budget, lastUser, chain,
                loadIn, probe, conv, filterState>>

\* a finger goes down. What the backend makes of a window that is not finite
\* is not in the source: no gesture is followed from such a window.
PinchTouchStart(dist, center) ==
    /\ touches < MaxTouches
    /\ FiniteWindow(Val(layoutRange))
    /\ touches' = touches + 1
    /\ gesture' = pinchTouchStart(gesture, layoutRange, touches', dist, center)
    /\ lastEvent' = "touchstart"
    /\ UNCHANGED <<ctlVars, zoom>>
    /\ PinchFrame

\* the fingers move: one sample
PinchTouchMove(dist, center) ==
    /\ touches >= 1
    /\ gesture.samples < MaxSamples
    /\ gesture' = [pinchTouchMove(gesture, touches, dist, center, currentFilteredData)
                     EXCEPT !.samples = gesture.samples + 1]
    /\ lastEvent' = "touchmove"
    /\ UNCHANGED <<ctlVars, touches, zoom>>
    /\ PinchFrame

\* a finger is lifted
PinchTouchEnd ==
    /\ touches >= 1
    /\ touches' = touches - 1
    /\ LET r == pinchTouchEnd(gesture, Ctl, touches')
       IN gesture' = r.g /\ Commit(r.c)
    /\ lastEvent' = "touchend"
    /\ UNCHANGED zoom
    /\ PinchFrame

\* the requested animation frame arrives
AnimationFrame ==
    /\ ~IsNull(gesture.rafId)
    /\ LET r == flushLayout(gesture, Ctl)
       IN gesture' = r.g /\ Commit(r.c)
    /\ lastEvent' = "frame"
    /\ UNCHANGED <<touches, zoom>>
    /\ PinchFrame

\* a pinch on the trackpad, no finger being on the screen: a wheel event
\* with the control key set. One such request is made.
Wheel(deltaY, pos) ==
    /\ IsNull(zoom.req)
    /\ touches = 0
    /\ FiniteWindow(Val(layoutRange))
    /\ LET cur == Val(layoutRange)
           frac == getPlotFraction(pos.x, pos.y)
       IN zoom' = [req |-> Some([xRange |-> cur.xaxis, yRange |-> cur.yaxis,
                                 scale |-> Frac(100 + deltaY, 100),
                                 fx |-> frac.fx, fy |-> frac.fy]),
                   res |-> trackpadZoomedRanges(cur.xaxis, cur.yaxis, Frac(100 + deltaY, 100),
                                                frac.fx, frac.fy, currentFilteredData)]
    /\ Commit(onWheel(Ctl, deltaY, pos))
    /\ lastEvent' = "wheel"
    /\ UNCHANGED <<gesture, touches>>
    /\ PinchFrame

NextPinch ==
    \/ \E t \in PinchStarts : PinchTouchStart(t.dist, t.center)
    \/ \E t \in PinchMoves : PinchTouchMove(t.dist, t.center)
    \/ PinchTouchEnd
    \/ AnimationFrame
    \/ \E e \in WheelEvents : Wheel(e.deltaY, e.pos)

SpecPinch == InitPinch /\ [][NextPinch]_vars

\* ------------------------------------------------------------------------
\*  The declutter pass on its own: computeVisibleRubbers over candidate sets
\*  in a window where one data unit is one pixel, and the same pass run
\*  again with larger pixel thresholds
\* ------------------------------------------------------------------------

Item(n, x, y, priority) == [name |-> n, x |-> Some(x), y |-> Some(y), priority |-> priority]

\* a plot area whose sides are powers of two
ProbeSize == [w |-> 128, h |-> 64]

\* a window of ProbeSize.w x ProbeSize.h data units from (1, 1): the pixel
\* positions ((x - 1) / 128) * 128 and ((y - 1) / 64) * 64 of whole
\* coordinates are computed without rounding, so that the pixel distances
\* compared with the thresholds are the exact ones
PixelWindow == [xaxis |-> <<R(1), R(1 + ProbeSize.w)>>, yaxis |-> <<R(1), R(1 + ProbeSize.h)>>]

CandidatesA == { Item("a", 1, 1, 1), Item("a", 106, 31, 1), Item("a", 61, 1, 1) }
CandidatesB == { Item("b", 11, 1, 2), Item("b", 51, 11, 2), Item("b", 6, 1, 2) }
CandidatesC == { Item("c", 61, 1, 3), Item("c", 1, 1, 3), Item("c", 51, 25, 2) }
CandidatesD == { Item("d", 101, 1, 4), Item("d", 6, 24, 4), Item("d", 1, 25, DefaultPriority),
                 Item("d", 66, 12, 1) }

CandidateSets ==
    UNION { { <<a, b, c>>, <<a, b, c, d>>, <<d, c, b, a>>, <<c, a, d, b>> } :
            a \in CandidatesA, b \in CandidatesB, c \in CandidatesC, d \in CandidatesD }

\* the thresholds of the code and larger ones
ProbeDists == { <<MIN_DIST_X, MIN_DIST_Y>>, <<80, MIN_DIST_Y>>, <<MIN_DIST_X, 40>>, <<80, 40>> }

InitDeclutter ==
    /\ phase = "ready"
    /\ zoom = NoZoom
    /\ loadIn = SessionLoad
    /\ gesture = NoGesture
    /\ probe = NoProbe
    /\ detail = NoDetail
    /\ conv = NoConv
    /\ filterState = SessionFilters
    /\ rubberData = SessionData
    /\ selectedNames = AllNames
    /\ hasPlotted = TRUE
    /\ isInternalUpdate = FALSE
    /\ relayoutTimer = Null
    /\ burst = NoBurst
    /\ internalUpdateTimer = Null
    /\ currentFilteredData \in CandidateSets
    /\ layoutRange = Some(PixelWindow)
    /\ drawn = <<>>
    /\ inflight = <<>>
    /\ touches = 0
    /\ pinch = NoPinch
    /\ budget = 0
    /\ lastEvent = "load"
    /\ lastUser = "none"
    /\ chain = 0
    /\ lastPush = NoPush
    /\ sincePush = [any |-> INTERNAL_UPDATE_MS, guarded |-> INTERNAL_UPDATE_MS]

\* computeVisibleRubbers for the window (lines 1239-1291), and the same
\* pass with the thresholds dist
SelectStep(dist) ==
    /\ IsNull(probe.dist)
    /\ drawn' \in computeVisibleRubbers(currentFilteredData, layoutRange, ProbeSize, ContainerRect)
    /\ \E visible \in Declutter(currentFilteredData, PixelWindow.xaxis, PixelWindow.yaxis,
                                R(ProbeSize.w), R(ProbeSize.h), dist[1], dist[2]) :
          probe' = [probe EXCEPT !.dist = Some(dist), !.visible = visible]
    /\ lastEvent' = "select"
    /\ UNCHANGED <<detail, phase, rubberData, selectedNames, hasPlotted, isInternalUpdate,
                   relayoutTimer, internalUpdateTimer, currentFilteredData, layoutRange,
                   inflight, touches, pinch, budget, lastUser, chain, lastPush, sincePush, burst,
                   zoom, loadIn, gesture, conv, filterState>>

\* windows with a zero or negative span on one axis or on both
DegenerateWindows ==
    { [xaxis |-> <<R(5), R(5)>>, yaxis |-> PixelWindow.yaxis],
      [xaxis |-> <<PixelWindow.xaxis[2], PixelWindow.xaxis[1]>>, yaxis |-> PixelWindow.yaxis],
      [xaxis |-> PixelWindow.xaxis, yaxis |-> <<R(3), R(3)>>],
      [xaxis |-> PixelWindow.xaxis, yaxis |-> <<PixelWindow.yaxis[2], PixelWindow.yaxis[1]>>],
      [xaxis |-> <<PixelWindow.xaxis[2], PixelWindow.xaxis[1]>>,
       yaxis |-> <<PixelWindow.yaxis[2], PixelWindow.yaxis[1]>>],
      [xaxis |-> <<R(0), R(0)>>, yaxis |-> <<R(2), R(1)>>] }

\* computeVisibleRubbers with the chart's layout holding the window w
SelectInWindow(w) ==
    /\ IsNull(probe.window)
    /\ \E whole \in computeVisibleRubbers(currentFilteredData, Some(w), ProbeSize, ContainerRect) :
          probe' = [probe EXCEPT !.window = Some(w), !.whole = whole]
    /\ lastEvent' = "select_in_window"
    /\ UNCHANGED <<detail, phase, rubberData, selectedNames, hasPlotted, isInternalUpdate,
                   relayoutTimer, internalUpdateTimer, currentFilteredData, layoutRange,
                   drawn, inflight, touches, pinch, budget, lastUser, chain, lastPush,
                   sincePush, burst, zoom, loadIn, gesture, conv, filterState>>

NextDeclutter ==
    \/ \E dist \in ProbeDists : SelectStep(dist)
    \/ \E w \in DegenerateWindows : SelectInWindow(w)

SpecDeclutter == InitDeclutter /\ [][NextDeclutter]_vars

\* ------------------------------------------------------------------------
\*  Hardness conversion on its own: toGermanScale, then fromGermanScale
\*  (src/app.js lines 42-69)
\* ------------------------------------------------------------------------

\* manufacturer hardness values: each anchor of each scale, values between
\* anchors, values below the first and above the last anchor, and a value
\* that is not a finite number (Null)
HardnessValues ==
    { Null } \cup
    { Some(v) : v \in { R(30), R(33), Frac(69, 2), R(35), R(36), R(37), R(39), R(40),
                        R(41), R(44), R(46), Frac(95, 2), R(55), R(58) } }

\* manufacturer_details.country: the three scales, and countries without one
Countries == { "Germany", "Japan", "China", "Korea", "" }

InitScale ==
    /\ phase = "ready"
    /\ zoom = NoZoom
    /\ loadIn = SessionLoad
    /\ gesture = NoGesture
    /\ probe = NoProbe
    /\ detail = NoDetail
    /\ conv \in { [value |-> v, country |-> c, german |-> Null, back |-> Null, stage |-> 0] :
                     v \in HardnessValues, c \in Countries }
    /\ filterState = SessionFilters
    /\ rubberData = SessionData
    /\ selectedNames = AllNames
    /\ hasPlotted = TRUE
    /\ isInternalUpdate = FALSE
    /\ relayoutTimer = Null
    /\ burst = NoBurst
    /\ internalUpdateTimer = Null
    /\ currentFilteredData = <<>>
    /\ layoutRange = Null
    /\ drawn = <<>>
    /\ inflight = <<>>
    /\ touches = 0
    /\ pinch = NoPinch
    /\ budget = 0
    /\ lastEvent = "load"
    /\ lastUser = "none"
    /\ chain = 0
    /\ lastPush = NoPush
    /\ sincePush = [any |-> INTERNAL_UPDATE_MS, guarded |-> INTERNAL_UPDATE_MS]

ScaleFrame ==
    UNCHANGED <<detail, phase, rubberData, selectedNames, ctlVars, touches, pinch, budget,
                lastUser, chain, zoom, loadIn, gesture, probe, filterState>>

\* toGermanScale(value, country)
ConvertToGerman ==
    /\ conv.stage = 0
    /\ conv' = [conv EXCEPT !.german = toGermanScale(conv.value, conv.country),
                            !.stage = 1]
    /\ lastEvent' = "toGerman"
    /\ ScaleFrame

\* fromGermanScale(geValue, country) on the converted value
ConvertFromGerman ==
    /\ conv.stage = 1
    /\ conv' = [conv EXCEPT !.back = fromGermanScale(conv.german, conv.country),
                            !.stage = 2]
    /\ lastEvent' = "fromGerman"
    /\ ScaleFrame

NextScale == ConvertToGerman \/ ConvertFromGerman

SpecScale == InitScale /\ [][NextScale]_vars

\* ------------------------------------------------------------------------
\*  The weight and hardness range filters on their own
\*  (src/app.js lines 406-633, 1204-1236)
\* ------------------------------------------------------------------------

\* a positioned rubber with its measurements; the hardness is given on the
\* manufacturer's scale and normalized as loadRubberData does (line 311)
Measured(n, x, y, weight, hardness, country) ==
    [name |-> n, brand |-> "Lab", sheet |-> normalizeSheet(""), controlRank |-> Null,
     x |-> Some(x), y |-> Some(y), priority |-> DefaultPriority,
     weight |-> weight, normalizedHardness |-> toGermanScale(hardness, country)]

MeasuredA == { Measured("a", 1, 3, w, h, "Germany") : w \in { Null, Some(R(45)) },
                                                       h \in { Null, Some(R(40)) } }
MeasuredB == { Measured("b", 2, 2, w, Some(R(36)), "Japan") : w \in { Null, Some(R(48)) } }
MeasuredC == { Measured("c", 3, 1, Some(R(50)), h, "China") : h \in { Null, Some(R(41)) } }

MeasuredCatalogs ==
    { <<a, b, c>> : a \in MeasuredA, b \in MeasuredB, c \in MeasuredC }
    \cup { <<a>> : a \in MeasuredA }

\* slider positions
WeightSteps == { R(45), R(48), R(50) }
HardnessSteps == { R(40), Frac(95, 2), R(55) }

InitFilter ==
    /\ phase = "ready"
    /\ zoom = NoZoom
    /\ loadIn = SessionLoad
    /\ gesture = NoGesture
    /\ probe = NoProbe
    /\ detail = NoDetail
    /\ conv = NoConv
    /\ rubberData \in MeasuredCatalogs
    /\ filterState = initFilters(rubberData).fs
    /\ selectedNames = initFilters(rubberData).checked
    /\ \E c \in RestAfterFit(getFilteredData(rubberData, selectedNames, filterState)) :
          Starts(c)
    /\ touches = 0
    /\ pinch = NoPinch
    /\ budget = 0
    /\ lastEvent = "load"
    /\ lastUser = "none"
    /\ chain = 0

FilterFrame ==
    UNCHANGED <<detail, phase, rubberData, touches, pinch, budget, lastUser, chain,
                zoom, loadIn, gesture, probe, conv>>

\* debounce (lines 5-11): clearTimeout on the closure's own timer, then
\* setTimeout; the timer of the other closure is left running
debounce(timers, filterId) ==
    Append(SelectSeq(timers, LAMBDA id : id # filterId), filterId)

\* 'input' on a weight slider (lines 533-536): syncWeightRangeFromInputs,
\* then the weight filter's debounced onChange is (re)started
WeightInput(minVal, maxVal) ==
    /\ ~IsNull(filterState.weight.dataMin)
    /\ filterState' = [filterState EXCEPT
                         !.weight = setRange(@, RMin(minVal, maxVal), RMax(minVal, maxVal)),
                         !.debounceTimers = debounce(@, "weight")]
    /\ lastEvent' = "weightInput"
    /\ UNCHANGED <<ctlVars, selectedNames>>
    /\ FilterFrame

\* 'input' on a hardness slider (lines 690-693): the hardness filter's own
\* debounced onChange is (re)started
HardnessInput(minVal, maxVal) ==
    /\ ~IsNull(filterState.hardness.dataMin)
    /\ filterState' = [filterState EXCEPT
                         !.hardness = setRange(@, RMin(minVal, maxVal), RMax(minVal, maxVal)),
                         !.debounceTimers = debounce(@, "hardness")]
    /\ lastEvent' = "hardnessInput"
    /\ UNCHANGED <<ctlVars, selectedNames>>
    /\ FilterFrame

\* onFilterChange(filterId) (lines 2528-2533): unless the name filter itself
\* changed, the name filter is rebuilt from the rubbers passing the other
\* filters; then updateChart() takes getFilteredData()
onFilterChange(c, data, fs, checked, filterId) ==
    LET f == IF filterId # "name" THEN buildNameOptionsFromFilters(data, fs, checked)
             ELSE [fs |-> fs, checked |-> checked]
    IN { [fs |-> f.fs, checked |-> f.checked, c |-> u] :
           u \in updateChart(c, getFilteredData(data, f.checked, f.fs), FALSE, FALSE) }

\* the handler has run on the filter panel fs with the names checked
FilterChanged(fs, checked, filterId) ==
    /\ inflight = <<>>
    /\ \E r \in onFilterChange(Ctl, rubberData, fs, checked, filterId) :
          /\ filterState' = r.fs
          /\ selectedNames' = r.checked
          /\ Fits(r.c)
          /\ Commit(r.c)
    /\ FilterFrame

\* the timer of a slider filter's debounce expires: its onChange runs, which
\* is onFilterChange('weight') or onFilterChange('hardness') (lines 2536,
\* 2537); a timer of the other slider stays and runs onFilterChange again
DebouncedChange(filterId) ==
    /\ filterState.debounceTimers # <<>>
    /\ Head(filterState.debounceTimers) = filterId
    /\ FilterChanged([filterState EXCEPT !.debounceTimers = Tail(@)], selectedNames, filterId)
    /\ lastEvent' = "change"

\* click on weightResetBtn: resetWeightRangeToDataBounds, then onChange at once
WeightReset ==
    /\ ~IsNull(filterState.weight.dataMin)
    /\ FilterChanged([filterState EXCEPT !.weight = resetRangeToDataBounds(@)],
                     selectedNames, "weight")
    /\ lastEvent' = "weightReset"

\* click on hardnessResetBtn
HardnessReset ==
    /\ ~IsNull(filterState.hardness.dataMin)
    /\ FilterChanged([filterState EXCEPT !.hardness = resetRangeToDataBounds(@)],
                     selectedNames, "hardness")
    /\ lastEvent' = "hardnessReset"

\* click on clearAllFilters (lines 2586-2591): resetFiltersToAll, then
\* updateChart() on the window as it is
ClearAllFilters ==
    /\ inflight = <<>>
    /\ LET f == resetFiltersToAll(rubberData, filterState)
       IN /\ filterState' = f.fs
          /\ selectedNames' = f.checked
          /\ \E c \in updateChart(Ctl, getFilteredData(rubberData, f.checked, f.fs),
                                   FALSE, FALSE) :
                Fits(c) /\ Commit(c)
    /\ lastEvent' = "clearAll"
    /\ FilterFrame

NextFilter ==
    \/ \E lo, hi \in WeightSteps : WeightInput(lo, hi)
    \/ \E lo, hi \in HardnessSteps : HardnessInput(lo, hi)
    \/ \E filterId \in { "weight", "hardness" } : DebouncedChange(filterId)
    \/ WeightReset
    \/ HardnessReset
    \/ ClearAllFilters
    \/ Deliver
    \/ InternalUpdateTimerFires
    \/ Tick

SpecFilter == InitFilter /\ [][NextFilter]_vars

\* ------------------------------------------------------------------------
\*  The checkbox filters on their own: brand, sheet, control tier and name
\*  (src/app.js lines 771-859, 908-962, 2520-2591)
\* ------------------------------------------------------------------------

InitPanel ==
    /\ phase = "ready"
    /\ zoom = NoZoom
    /\ loadIn = SessionLoad
    /\ gesture = NoGesture
    /\ probe = NoProbe
    /\ detail = NoDetail
    /\ conv = NoConv
    /\ filterState = SessionFilters
    /\ rubberData = SessionData
    /\ selectedNames = AllNames
    /\ \E c \in RestAfterFit(SessionData) : Starts(c)
    /\ touches = 0
    /\ pinch = NoPinch
    /\ budget = 0
    /\ lastEvent = "load"
    /\ lastUser = "none"
    /\ chain = 0

\* 'change' on the brand filter (line 2543) or its All / None button
BrandChange(brands) ==
    /\ CheckboxEvent(filterState.brandOptions, filterState.brands, brands)
    /\ FilterChanged([filterState EXCEPT !.brands = brands], selectedNames, "brand")
    /\ lastEvent' = "brand"

\* 'change' on a sheet pill (lines 850-853)
SheetToggle(sheet) ==
    /\ FilterChanged([filterState EXCEPT
                        !.sheets = IF sheet \in @ THEN @ \ {sheet} ELSE @ \cup {sheet}],
                     selectedNames, "sheet")
    /\ lastEvent' = "sheet"

\* 'change' on a control pill (lines 814-822)
ControlToggle(tier) ==
    /\ HasControlPills(filterState)
    /\ FilterChanged([filterState EXCEPT
                        !.control.selectedTiers =
                            IF tier \in @ THEN @ \ {tier} ELSE @ \cup {tier}],
                     selectedNames, "control")
    /\ lastEvent' = "control"

\* 'change' on the name filter (line 2543) or its All / None button
NameChange(names) ==
    /\ CheckboxEvent(filterState.nameOptions, selectedNames, names)
    /\ FilterChanged(filterState, names, "name")
    /\ lastEvent' = "name"

NextPanel ==
    \/ \E brands \in SUBSET filterState.brandOptions : BrandChange(brands)
    \/ \E sheet \in SHEETS : SheetToggle(sheet)
    \/ \E tier \in CONTROL_TIERS : ControlToggle(tier)
    \/ \E names \in SUBSET filterState.nameOptions : NameChange(names)
    \/ ClearAllFilters
    \/ Deliver
    \/ InternalUpdateTimerFires
    \/ Tick

SpecPanel == InitPanel /\ [][NextPanel]_vars


\* ------------------------------------------------------------------------
\*  The detail panels on their own: clicks on rubbers, country switches, the
\*  home logo, and the responses of the description fetches, arriving in any
\*  order
\* ------------------------------------------------------------------------

MaxDetailEvents == 3
MaxFetches == 3

DetailCountries == { "us", "eu", "cn" }

InitDetail ==
    /\ phase = "ready"
    /\ zoom = NoZoom
    /\ loadIn = SessionLoad
    /\ gesture = NoGesture
    /\ probe = NoProbe
    /\ detail = NoDetail
    /\ conv = NoConv
    /\ filterState = SessionFilters
    /\ rubberData = SessionData
    /\ selectedNames = AllNames
    /\ \E c \in RestAfterFit(SessionData) : Starts(c)
    /\ touches = 0
    /\ pinch = NoPinch
    /\ budget = MaxDetailEvents
    /\ lastEvent = "load"
    /\ lastUser = "none"
    /\ chain = 0

DetailFrame ==
    UNCHANGED <<phase, rubberData, selectedNames, ctlVars, touches, pinch, lastUser, chain,
                zoom, loadIn, gesture, probe, conv, filterState>>

\* plotly_click on a point of the chart (lines 1653-1656): the rubber is
\* the customdata of a point of the traces drawn
RubberClick(i) ==
    /\ budget > 0
    /\ i \in 1..Len(drawn)
    /\ budget' = budget - 1
    /\ detail' = handleRubberClick(detail, drawn[i])
    /\ BagCardinality(detail'.fetches) <= MaxFetches
    /\ lastEvent' = "rubber_click"
    /\ DetailFrame

\* a click on a button of the country selector
CountryClick(country) ==
    /\ budget > 0
    /\ country # detail.selectedCountry
    /\ budget' = budget - 1
    /\ detail' = onCountryClick(detail, country)
    /\ BagCardinality(detail'.fetches) <= MaxFetches
    /\ lastEvent' = "country_click"
    /\ DetailFrame

\* the response of one of the fetches under way arrives; a description
\* fetched twice arrives twice
DescriptionArrives(req) ==
    /\ BagIn(req, detail.fetches)
    /\ detail' = descriptionArrives(detail, req)
    /\ lastEvent' = "description"
    /\ UNCHANGED budget
    /\ DetailFrame

NextDetail ==
    \/ \E i \in 1..Len(drawn) : RubberClick(i)
    \/ \E country \in DetailCountries : CountryClick(country)
    \/ \E req \in BagToSet(detail.fetches) : DescriptionArrives(req)
    \/ HomeReset
    \/ Deliver

SpecDetail == InitDetail /\ [][NextDetail]_vars





\* ------------------------------------------------------------------------
\*  Properties of the session
\* ------------------------------------------------------------------------

Delivered == Len(inflight') < Len(inflight)

\* C1: a backend notification delivered while the guard is armed is discarded:
\* it runs no recompute, schedules none, and leaves the debounce timer, the
\* disarm timer and the guard as they were.
C1_ArmedNotificationDiscarded ==
    [][(Delivered /\ isInternalUpdate) =>
          /\ relayoutTimer' = relayoutTimer
          /\ internalUpdateTimer' = internalUpdateTimer
          /\ isInternalUpdate'
          /\ currentFilteredData' = currentFilteredData
          /\ drawn' = drawn
          /\ layoutRange' = layoutRange
          /\ lastPush' = lastPush
          /\ chain' = chain]_vars

C1_Witness == lastEvent = "notify_range_while_armed" /\ isInternalUpdate

\* C2: no feedback loop: between two user events at most one recompute is
\* triggered by notifications; that recompute leaves the guard armed with the
\* disarm timer running and no debounce timer; and once the session is idle
\* again after a pan made from idle, exactly one recompute has run.
C2_NoFeedbackLoop ==
    /\ chain <= 1
    /\ lastEvent = "relayout_recompute" =>
          /\ isInternalUpdate
          /\ internalUpdateTimer = Some(INTERNAL_UPDATE_MS)
          /\ IsNull(relayoutTimer)
    /\ (Idle /\ lastUser = "pan_idle") => chain = 1

C2_Witness == Idle /\ lastUser = "pan_idle" /\ chain = 1

Disarmed == isInternalUpdate /\ ~isInternalUpdate'

\* C3 (as claimed): the guard is never disarmed less than 300 ms after any
\* programmatic window push.
C3_DisarmAfterAnyPush == [][Disarmed => sincePush.any >= INTERNAL_UPDATE_MS]_vars

\* C3 (amended): the guard is never disarmed less than 300 ms after a push made
\* by updateChart or by a pinch update, the pushes that restart the disarm delay.
C3_DisarmAfterGuardedPush == [][Disarmed => sincePush.guarded >= INTERNAL_UPDATE_MS]_vars

C3_Witness ==
    /\ lastEvent = "disarm"
    /\ lastPush.kind = "react"
    /\ sincePush.guarded >= INTERNAL_UPDATE_MS

\* C4 (as claimed): every programmatic window push is made with the guard armed.
C4_EveryPushArmed == lastPush.kind # "none" => lastPush.armed

\* C4 (amended): every push made by updateChart (newPlot / react) and by a pinch
\* update is made with the guard armed.
C4_ReactAndPinchPushArmed == lastPush.kind \in {"react", "pinch"} => lastPush.armed

C4_Witness == lastPush.kind = "pinch" /\ lastPush.armed /\ lastUser = "touchmove"

Fresh ==
    drawn \in computeVisibleRubbers(FilteredNow, layoutRange, PlotSize, ContainerRect)

\* C5 (as claimed): once the session is idle again, the drawn subset is the
\* declutter selection for the current window and the current filtered set.
C5_FreshWhenIdle == Idle => Fresh

\* ---- the zoom engine (SpecZoom) ----

ZReq == Val(zoom.req)
ZBounds == getAutoscaleBounds(currentFilteredData)
ZAsked == ~IsNull(zoom.req)

\* the requested window contains the autoscale bounds on both axes
ZReqCoversBounds ==
    /\ ~IsNull(ZBounds)
    /\ RLe(ZReq.xRange[1], Val(ZBounds).x[1]) /\ RGe(ZReq.xRange[2], Val(ZBounds).x[2])
    /\ RLe(ZReq.yRange[1], Val(ZBounds).y[1]) /\ RGe(ZReq.yRange[2], Val(ZBounds).y[2])

\* C6: a zoom-out asked of a window that already contains the autoscale
\* bounds of the filtered items returns no window, and the window stays as
\* it was: nothing is pushed, no notification is under way.
C6_ZoomOutRefusedWhenCovering ==
    (ZAsked /\ RGt(ZReq.scale, One) /\ ZReqCoversBounds)
        => /\ ~zoom.res.ok
           /\ layoutRange = Some([xaxis |-> ZReq.xRange, yaxis |-> ZReq.yRange])
           /\ inflight = <<>>

C6_Witness ==
    /\ ZAsked /\ RGt(ZReq.scale, One) /\ ZReqCoversBounds
    /\ ~zoom.res.ok
    /\ Len(currentFilteredData) > 1

\* C7: whatever the current window, a zoom-in over a non-empty filtered set
\* returns a window whose span on each axis is at least 5% of the span of
\* the autoscale bounds on that axis.
C7_ZoomInKeepsMinSpan ==
    (ZAsked /\ RLt(ZReq.scale, One) /\ zoom.res.ok /\ ~IsNull(ZBounds))
        => /\ RGe(Span(zoom.res.xRange), RMul(Span(Val(ZBounds).x), MIN_SPAN_FRACTION))
           /\ RGe(Span(zoom.res.yRange), RMul(Span(Val(ZBounds).y), MIN_SPAN_FRACTION))

\* the data point under the anchor fraction, in a window
AnchorPoint(xRange, yRange, fx, fy) ==
    <<RAdd(xRange[1], RMul(fx, Span(xRange))), RAdd(yRange[1], RMul(fy, Span(yRange)))>>

AnchorKept ==
    AnchorPoint(zoom.res.xRange, zoom.res.yRange, ZReq.fx, ZReq.fy)
        = AnchorPoint(ZReq.xRange, ZReq.yRange, ZReq.fx, ZReq.fy)

\* C8 as stated: every zoom call that returns a window keeps the data point
\* under the anchor at the same fraction of the window.
C8_AnchorKeptAlways == (ZAsked /\ zoom.res.ok) => AnchorKept

\* the returned window is the rescaled one: the clamp to the autoscale
\* bounds (lines 1867-1870) moved none of its edges
ZClampIdle ==
    LET xSpan == Span(ZReq.xRange)
        ySpan == Span(ZReq.yRange)
        new == RescaledRanges(ZReq.xRange, ZReq.yRange,
                              ClampedScale(xSpan, ySpan, ZReq.scale, ZBounds),
                              ZReq.fx, ZReq.fy)
    IN zoom.res = new

\* C8, amended: a zoom call that returns a window none of whose edges was
\* moved by the clamp to the autoscale bounds keeps the data point under the
\* anchor at the same fraction of the window, also when the scale was
\* limited by the minimum span.
C8_AnchorKeptUnlessClamped == (ZAsked /\ zoom.res.ok /\ ZClampIdle) => AnchorKept

C8_Witness ==
    /\ ZAsked /\ zoom.res.ok /\ ZClampIdle /\ AnchorKept
    /\ ZReq.fx # Half
    /\ ~IsNull(ZBounds)
    /\ zoom.res.xRange # ZReq.xRange


\* ---- catalog loading (SpecLoad) ----

Positioned(items) ==
    \A i \in 1..Len(items) : ~IsNull(items[i].x) /\ ~IsNull(items[i].y)

Listed(raw, table) ==
    \E i \in 1..Len(table) :
        /\ NormBrand(table[i].brand) = NormBrand(raw.brand)
        /\ table[i].name \in {raw.name, raw.abbr}

NamesOf(items) == { items[i].name : i \in 1..Len(items) }

\* the rubbers shown in the detail panels
DetailNames ==
    { Val(detail.selectedRubbers[k]).name :
        k \in { j \in 1..2 : ~IsNull(detail.selectedRubbers[j]) } }

\* C10: every item of rubberData has a non-null x and y; a catalog item that
\* is not listed in the spin table or not listed in the speed table is absent
\* from rubberData, from the filtered set and from the drawn set, and also
\* from the name filter and the detail panels, whatever the page address asks.
C10_OnlyPositionedItems ==
    /\ Positioned(rubberData) /\ Positioned(currentFilteredData) /\ Positioned(drawn)
    /\ phase # "loading" =>
         \A i \in 1..Len(loadIn.raw) :
            LET raw == loadIn.raw[i]
            IN (~Listed(raw, loadIn.rankings.spin) \/ ~Listed(raw, loadIn.rankings.speed))
                 => raw.name \notin (NamesOf(rubberData) \cup NamesOf(currentFilteredData)
                                        \cup NamesOf(drawn) \cup filterState.nameOptions
                                        \cup selectedNames \cup DetailNames)

C10_Witness ==
    /\ phase = "fit"
    /\ loadIn.raw = SessionRaw
    /\ Len(rubberData) >= 1
    /\ drawn # <<>>
    /\ \E i \in 1..Len(loadIn.raw) :
          /\ Listed(loadIn.raw[i], loadIn.rankings.spin)
          /\ ~Listed(loadIn.raw[i], loadIn.rankings.speed)


\* ---- the coalesced pinch (SpecPinch) ----

GestureCleared ==
    /\ IsNull(gesture.pinchStartDist) /\ IsNull(gesture.pinchStartRanges)
    /\ IsNull(gesture.pinchStartCenter) /\ IsNull(gesture.dataAnchor)
    /\ IsNull(gesture.rafId) /\ IsNull(gesture.pendingLayout)

PinchEndStep == gesture.stage = "active" /\ gesture'.stage = "ended"

\* the gesture is over and the step is none of the trackpad
AfterPinchStep ==
    gesture.stage = "ended" /\ gesture'.stage = "ended" /\ lastEvent' # "wheel"

\* C9: once a pinch has ended (a touch end left fewer than two touches) its
\* state is cleared, nothing is pending and no frame is requested, and the
\* window the gesture pushed last is the window computed from the last
\* touch-move sample that computed one, whether or not earlier samples were
\* dropped; at the end of the pinch that window is the backend's window; and
\* until a new pinch starts nothing more is pushed, unless the trackpad
\* pushes it.
C9_PinchEndFlushes ==
    /\ [](gesture.stage = "ended"
            => /\ GestureCleared
               /\ ~IsNull(gesture.lastComputed) => gesture.pushed = gesture.lastComputed)
    /\ [][PinchEndStep
            => (~IsNull(gesture'.lastComputed) => layoutRange' = gesture'.lastComputed)]_vars
    /\ [][AfterPinchStep => (layoutRange' = layoutRange /\ inflight' = inflight)]_vars

C9_Witness ==
    /\ gesture.stage = "ended"
    /\ gesture.dropped
    /\ gesture.flushedAtEnd
    /\ layoutRange = gesture.lastComputed
    /\ lastPush.kind = "touchend"
    /\ lastEvent = "touchmove"


\* the 1-based rank of a catalog item in a rank table: the position of the
\* first entry of its brand that carries its name or its abbreviation
IsRankOf(n, item, table) ==
    /\ n \in 1..Len(table)
    /\ Listed(item, <<table[n]>>)
    /\ \A m \in 1..(n - 1) : ~Listed(item, <<table[m]>>)

\* C11: every loaded item carries its 1-based ranks, x = spinTableSize -
\* spinRank + 1 and y = speedTableSize - speedRank + 1; rank 1 has the
\* largest coordinate, the table size, and of two items the one with the
\* larger rank has the strictly smaller coordinate.
C11_CoordinateFromRank ==
    phase # "loading" =>
        \A i \in 1..Len(rubberData) :
            LET r == rubberData[i]
                spin == loadIn.rankings.spin
                speed == loadIn.rankings.speed
            IN /\ IsRankOf(Val(r.spinRank), r, spin)
               /\ IsRankOf(Val(r.speedRank), r, speed)
               /\ Val(r.x) = Len(spin) - Val(r.spinRank) + 1
               /\ Val(r.y) = Len(speed) - Val(r.speedRank) + 1
               /\ Val(r.spinRank) = 1 => Val(r.x) = Len(spin)
               /\ Val(r.speedRank) = 1 => Val(r.y) = Len(speed)
               /\ \A j \in 1..Len(rubberData) :
                     LET q == rubberData[j]
                     IN /\ Val(r.spinRank) < Val(q.spinRank) => Val(r.x) > Val(q.x)
                        /\ Val(r.speedRank) < Val(q.speedRank) => Val(r.y) > Val(q.y)

C11_Witness ==
    /\ phase = "init"
    /\ Len(rubberData) = 2
    /\ Val(rubberData[1].spinRank) = 1 /\ Val(rubberData[2].spinRank) = 2
    /\ Val(rubberData[1].speedRank) = 2 /\ Val(rubberData[2].speedRank) = 1
    /\ Val(rubberData[1].x) = 2 /\ Val(rubberData[2].y) = 2


\* ---- the declutter pass (SpecDeclutter) ----

Selected == ~IsNull(probe.dist)

\* pixel position of a candidate in the pixel window
Px(r) == Val(r.x) - 1
Py(r) == Val(r.y) - 1

\* two candidates are closer than dx in x and at the same time closer than dy in y
TooClose(r, q, dx, dy) == Abs(Px(r) - Px(q)) < dx /\ Abs(Py(r) - Py(q)) < dy

\* position of a candidate in priority order (ties in the order given)
Before(i, j) ==
    \/ currentFilteredData[i].priority < currentFilteredData[j].priority
    \/ currentFilteredData[i].priority = currentFilteredData[j].priority /\ i < j

\* C12: the drawn selection holds no two candidates closer than 55 px in x
\* and closer than 24 px in y; a candidate is left out only when it is that
\* close to an accepted candidate that comes before it in priority order, so
\* one that is 55 px away in x or 24 px away in y from every candidate
\* accepted before it is accepted; priorities 1, 2, 3 at pixels (0,0), (10,0),
\* (60,0) give the first and the third.
C12_ExclusionBox ==
    Selected =>
        /\ \A i, j \in 1..Len(drawn) :
              i # j => ~TooClose(drawn[i], drawn[j], MIN_DIST_X, MIN_DIST_Y)
        /\ Range(drawn) \subseteq Range(currentFilteredData)
        /\ \A i \in 1..Len(currentFilteredData) :
              currentFilteredData[i] \notin Range(drawn) =>
                 \E j \in 1..Len(currentFilteredData) :
                    /\ Before(j, i)
                    /\ currentFilteredData[j] \in Range(drawn)
                    /\ TooClose(currentFilteredData[i], currentFilteredData[j],
                                MIN_DIST_X, MIN_DIST_Y)
        /\ currentFilteredData = <<Item("a", 1, 1, 1), Item("b", 11, 1, 2), Item("c", 61, 1, 3)>>
              => drawn = <<Item("a", 1, 1, 1), Item("c", 61, 1, 3)>>

C12_Witness ==
    /\ Selected
    /\ currentFilteredData = <<Item("a", 1, 1, 1), Item("b", 11, 1, 2), Item("c", 61, 1, 3)>>
    /\ drawn = <<Item("a", 1, 1, 1), Item("c", 61, 1, 3)>>


\* C13 (as claimed): the pass with larger thresholds never accepts more
\* candidates than the pass with the thresholds 55 and 24.
C13_LargerThresholdsNeverMore == Selected => Len(probe.visible) <= Len(drawn)


\* the candidate that comes first in priority order
IsFirst(i) == \A j \in 1..Len(currentFilteredData) : j # i => Before(i, j)

\* C13 (amended): the candidates accepted with larger thresholds are also
\* pairwise clear of each other under the thresholds 55 and 24; the
\* candidate first in priority order is accepted under every threshold; and
\* among up to three candidates the pass with larger thresholds never accepts
\* more than the pass with 55 and 24.
C13_LargerThresholdsSeparated ==
    Selected =>
        /\ \A i, j \in 1..Len(probe.visible) :
              i # j => ~TooClose(probe.visible[i], probe.visible[j], MIN_DIST_X, MIN_DIST_Y)
        /\ \A i \in 1..Len(currentFilteredData) :
              IsFirst(i) => /\ currentFilteredData[i] \in Range(probe.visible)
                            /\ currentFilteredData[i] \in Range(drawn)
        /\ Len(currentFilteredData) <= 3 => Len(probe.visible) <= Len(drawn)

C13_Witness ==
    /\ Selected
    /\ Len(currentFilteredData) = 3
    /\ Val(probe.dist) # <<MIN_DIST_X, MIN_DIST_Y>>
    /\ Len(probe.visible) < Len(drawn)


\* the value converted is a finite number of a country with its own scale
Converted(n) == conv.stage >= n /\ ~IsNull(conv.value)
OwnScale == HasScale(conv.country) /\ conv.country # "Germany"

\* C14: for a country with a scale, converting a finite hardness to the
\* German scale and back gives the value again: at every anchor, between
\* anchors, below the first and above the last anchor.
C14_RoundTrip ==
    (Converted(2) /\ HasScale(conv.country)) => conv.back = conv.value

C14_Witness ==
    /\ Converted(2)
    /\ conv.country = "China"
    /\ conv.value = Some(R(46))
    /\ conv.german = Some(Frac(295, 4))
    /\ conv.back = conv.value

\* (v, w) lies on the straight line through (a1, b1) and (a2, b2)
OnLine(v, w, a1, b1, a2, b2) ==
    RMul(RSub(w, b1), RSub(a2, a1)) = RMul(RSub(v, a1), RSub(b2, b1))

\* w is the image of v under the piecewise-linear map through the anchor
\* pairs (fromPts[i], toPts[i]): the first line up to the middle anchor
\* (and below the first), the second line above it (and above the last)
OnReferenceMap(v, w, fromPts, toPts) ==
    IF RLe(v, fromPts[2])
    THEN OnLine(v, w, fromPts[1], toPts[1], fromPts[2], toPts[2])
    ELSE OnLine(v, w, fromPts[2], toPts[2], fromPts[3], toPts[3])

AnchorsKept(v, w, fromPts, toPts) ==
    \A i \in 1..Len(fromPts) : v = fromPts[i] => w = toPts[i]

\* C15: the conversion of a value is its image under the piecewise-linear
\* map through the three anchor pairs, continued along the first segment
\* below the first anchor and along the last segment above the last one;
\* source anchor i converts to target anchor i, and Japan 36 to German 47.5.
C15_PiecewiseLinear ==
    /\ (Converted(1) /\ OwnScale) =>
          /\ OnReferenceMap(Val(conv.value), Val(conv.german),
                            HARDNESS_SCALES[conv.country], HARDNESS_SCALES["Germany"])
          /\ AnchorsKept(Val(conv.value), Val(conv.german),
                         HARDNESS_SCALES[conv.country], HARDNESS_SCALES["Germany"])
          /\ (conv.country = "Japan" /\ conv.value = Some(R(36)))
                => conv.german = Some(Frac(95, 2))
    /\ (Converted(2) /\ OwnScale) =>
          /\ OnReferenceMap(Val(conv.german), Val(conv.back),
                            HARDNESS_SCALES["Germany"], HARDNESS_SCALES[conv.country])
          /\ AnchorsKept(Val(conv.german), Val(conv.back),
                         HARDNESS_SCALES["Germany"], HARDNESS_SCALES[conv.country])

C15_Witness ==
    /\ Converted(1)
    /\ conv.country = "Japan"
    /\ conv.value = Some(R(36))
    /\ conv.german = Some(Frac(95, 2))

\* C16: for a country without a hardness scale both conversions return
\* their input unchanged.
C16_UnknownCountryIdentity ==
    ~HasScale(conv.country) =>
        /\ conv.stage >= 1 => conv.german = conv.value
        /\ conv.stage >= 2 => conv.back = conv.german

C16_Witness ==
    /\ conv.stage = 2
    /\ conv.country = "Korea"
    /\ conv.value = Some(R(37))
    /\ conv.german = Some(R(37))
    /\ conv.back = Some(R(37))

\* the filtered set is the one of the last change of a range filter
FilterApplied == lastEvent \in { "change", "weightReset", "hardnessReset", "clearAll" }

\* the range filter of a measurement lets the rubber through
PassesWeight(r) ==
    \/ ~isWeightFilterActive(filterState)
    \/ /\ ~IsNull(r.weight)
       /\ RLe(Val(filterState.weight.selectedMin), Val(r.weight))
       /\ RLe(Val(r.weight), Val(filterState.weight.selectedMax))
PassesHardness(r) ==
    \/ ~isHardnessFilterActive(filterState)
    \/ /\ ~IsNull(r.normalizedHardness)
       /\ RLe(Val(filterState.hardness.selectedMin), Val(r.normalizedHardness))
       /\ RLe(Val(r.normalizedHardness), Val(filterState.hardness.selectedMax))

\* C17: a rubber without a weight is left out of the filtered set exactly
\* while the weight filter is active, one without a normalized hardness
\* exactly while the hardness filter is active (the other filter letting it
\* through); while it stays it is the same rubber at the same position.
C17_MissingMeasurement ==
    FilterApplied =>
        \A i \in 1..Len(rubberData) :
            LET r == rubberData[i] IN
            /\ (IsNull(r.weight) /\ PassesHardness(r)) =>
                  (r \in Range(currentFilteredData) <=> ~isWeightFilterActive(filterState))
            /\ (IsNull(r.normalizedHardness) /\ PassesWeight(r)) =>
                  (r \in Range(currentFilteredData) <=> ~isHardnessFilterActive(filterState))
            /\ (IsNull(r.weight) /\ isWeightFilterActive(filterState)) =>
                  r \notin Range(currentFilteredData)
            /\ (IsNull(r.normalizedHardness) /\ isHardnessFilterActive(filterState)) =>
                  r \notin Range(currentFilteredData)

C17_Witness ==
    /\ lastEvent = "change"
    /\ isWeightFilterActive(filterState)
    /\ ~isHardnessFilterActive(filterState)
    /\ Len(rubberData) = 3
    /\ IsNull(rubberData[2].weight)
    /\ IsNull(rubberData[1].normalizedHardness)
    /\ rubberData[2] \notin Range(currentFilteredData)
    /\ rubberData[1] \in Range(currentFilteredData)

\* the debounce timer fires and its recompute runs
DebounceRecompute == relayoutTimer = Some(0) /\ lastEvent' = "relayout_recompute"

\* C18: a notification with a range or autorange key delivered while the
\* guard is disarmed restarts the 120 ms debounce timer; one without such a
\* key leaves the timer as it was; the timer counts the time since the last
\* notification of the burst, so the recompute runs 120 ms after that
\* notification, and it leaves no timer behind: one recompute for the burst.
C18_BurstCoalesced ==
    [][/\ (Delivered /\ ~isInternalUpdate /\ HasRangeKey(Head(inflight))) =>
             /\ relayoutTimer' = Some(RELAYOUT_DEBOUNCE_MS)
             /\ burst'.since = 0
             /\ burst'.count = IF IsNull(relayoutTimer) THEN 1 ELSE burst.count + 1
             /\ chain' = chain
       /\ (Delivered /\ ~HasRangeKey(Head(inflight))) =>
             /\ relayoutTimer' = relayoutTimer
             /\ burst' = burst
             /\ chain' = chain
       /\ ~IsNull(relayoutTimer) =>
             /\ burst.count >= 1
             /\ Val(relayoutTimer) + burst.since = RELAYOUT_DEBOUNCE_MS
       /\ DebounceRecompute =>
             /\ burst.since = RELAYOUT_DEBOUNCE_MS
             /\ chain' = chain + 1
             /\ IsNull(relayoutTimer')
       /\ chain' > chain => DebounceRecompute]_vars

C18_Witness ==
    /\ lastEvent = "notify_other_while_disarmed"
    /\ relayoutTimer = Some(0)
    /\ burst.count >= 2
    /\ burst.since = RELAYOUT_DEBOUNCE_MS
    /\ ~isInternalUpdate
    /\ chain = 0

\* ---- the clamp to the autoscale bounds ----

\* the rescaled window before and after clampRangeToBounds
ZRescaled ==
    RescaledRanges(ZReq.xRange, ZReq.yRange,
                   ClampedScale(Span(ZReq.xRange), Span(ZReq.yRange), ZReq.scale, ZBounds),
                   ZReq.fx, ZReq.fy)
ZClamped ==
    Ranges(clampRangeToBounds(ZRescaled.xRange, Val(ZBounds).x),
           clampRangeToBounds(ZRescaled.yRange, Val(ZBounds).y))

\* C19: the returned window is the rescaled window clamped to the
\* autoscale bounds when the request is a zoom-out (scale > 1), and the
\* rescaled window itself, unclamped, when it is a zoom-in (scale < 1).
C19_ClampOnlyOnZoomOut ==
    (ZAsked /\ zoom.res.ok /\ ~IsNull(ZBounds)) =>
        /\ RGt(ZReq.scale, One) => zoom.res = ZClamped
        /\ RLt(ZReq.scale, One) => zoom.res = ZRescaled

\* an edge lies within the bounds of its axis
Within(v, bounds) == RLe(bounds[1], v) /\ RLe(v, bounds[2])

\* the window a zoom-out returned lies within the autoscale bounds
ZoomOutWithinBounds ==
    (ZAsked /\ RGt(ZReq.scale, One) /\ zoom.res.ok /\ ~IsNull(ZBounds)) =>
        /\ Within(zoom.res.xRange[1], Val(ZBounds).x)
        /\ Within(zoom.res.xRange[2], Val(ZBounds).x)
        /\ Within(zoom.res.yRange[1], Val(ZBounds).y)
        /\ Within(zoom.res.yRange[2], Val(ZBounds).y)

\* the last zoom-out was refused: the window is as it was, so the next
\* zoom-out is refused as well
RefusesZoomOut == ZAsked /\ RGt(ZReq.scale, One) /\ ~zoom.res.ok

\* C20: whatever the filtered items and the starting window, a zoom-out
\* never returns a window that reaches beyond the autoscale bounds, and
\* after finitely many zoom-outs every further one is refused.
C20_ZoomOutBounded == []ZoomOutWithinBounds /\ <>[]RefusesZoomOut

\* ------------------------------------------------------------------------
\*  C21: every update of one pinch gesture leaves the state recorded at touch
\*  start (distance, window, anchor) unchanged, and the window it pushes is
\*  the one computed from that recorded state with scale
\*  startDistance / currentDistance, whatever window earlier updates of the
\*  gesture left on screen; the same finger distance therefore always gives
\*  the same window.
\* ------------------------------------------------------------------------

PinchStartState(p) ==
    <<p.pinchStartDist, p.pinchStartXRange, p.pinchStartYRange,
      p.pinchAnchorFx, p.pinchAnchorFy>>

\* the window of a sample at finger distance d, from the recorded start state
WindowFromStart(d) ==
    LET r == computeZoomedRanges(Val(pinch.pinchStartXRange), Val(pinch.pinchStartYRange),
                                 RDiv(R(Val(pinch.pinchStartDist)), R(d)),
                                 pinch.pinchAnchorFx, pinch.pinchAnchorFy,
                                 currentFilteredData)
    IN [xaxis |-> r.xRange, yaxis |-> r.yRange]

PinchUpdateStep ==
    /\ touches = 2
    /\ lastEvent' \in {"touchmove", "touchmove_nowindow"}
    /\ pinch.pinchActive
    /\ inflight = <<>>

PinchUpdateFromStart ==
    PinchUpdateStep =>
        /\ PinchStartState(pinch') = PinchStartState(pinch)
        /\ lastEvent' = "touchmove" =>
               \E d \in MoveDists :
                   /\ layoutRange' = Some(WindowFromStart(d))
                   /\ pinch'.pinchFinalRanges =
                          Some(Ranges(WindowFromStart(d).xaxis, WindowFromStart(d).yaxis))

C21_PinchFromStartState == [][PinchUpdateFromStart]_vars

\* a second update of one gesture has pushed a window, and the window on
\* screen is no longer the one recorded at touch start
C21_Witness ==
    /\ touches = 2
    /\ lastEvent = "touchmove"
    /\ lastUser = "touchmove_again"
    /\ ~IsNull(pinch.pinchStartXRange)
    /\ Val(layoutRange).xaxis # Val(pinch.pinchStartXRange)
    /\ Val(pinch.pinchFinalRanges).xRange = Val(layoutRange).xaxis

\* ------------------------------------------------------------------------
\*  C22: the declutter pass examines the candidates in ascending priority,
\*  equal priorities in the order given: the accepted candidates come out in
\*  that order, the first candidate of that order is accepted and comes out
\*  first, and a candidate is accepted exactly when no accepted candidate
\*  that precedes it in that order is too close to it.
\* ------------------------------------------------------------------------

\* position of a drawn candidate in the input
InputIndex(r) == CHOOSE k \in 1..Len(currentFilteredData) : currentFilteredData[k] = r

Accepted(i) == currentFilteredData[i] \in Range(drawn)

C22_ExaminedInPriorityOrder ==
    Selected =>
        /\ \A i, j \in 1..Len(drawn) :
              i < j => Before(InputIndex(drawn[i]), InputIndex(drawn[j]))
        /\ \A i \in 1..Len(currentFilteredData) :
              IsFirst(i) => drawn # <<>> /\ drawn[1] = currentFilteredData[i]
        /\ \A i \in 1..Len(currentFilteredData) :
              Accepted(i) <=>
                 ~\E j \in 1..Len(currentFilteredData) :
                     /\ Before(j, i)
                     /\ Accepted(j)
                     /\ TooClose(currentFilteredData[i], currentFilteredData[j],
                                 MIN_DIST_X, MIN_DIST_Y)

\* two candidates of equal priority too close to each other: the one given
\* first is accepted, the other rejected, in either input order
C22_Witness ==
    /\ Selected
    /\ \E i, j \in 1..Len(currentFilteredData) :
          /\ i < j
          /\ currentFilteredData[i] = Item("d", 66, 12, 1)
          /\ currentFilteredData[j] = Item("a", 61, 1, 1)
          /\ Accepted(i) /\ ~Accepted(j)

\* ------------------------------------------------------------------------
\*  C23: for a window whose span is zero or negative on either axis the
\*  declutter step returns every candidate, in the order given.
\* ------------------------------------------------------------------------

SelectedInWindow == ~IsNull(probe.window)

NonPositiveSpan(range) == RLe(RSub(range[2], range[1]), Zero)

C23_DegenerateWindowKeepsAll ==
    (/\ SelectedInWindow
     /\ \/ NonPositiveSpan(Val(probe.window).xaxis)
        \/ NonPositiveSpan(Val(probe.window).yaxis))
        => probe.whole = currentFilteredData

\* an inverted window and four candidates given against their priority
\* order, two of them closer than the thresholds
C23_Witness ==
    /\ SelectedInWindow
    /\ RLt(Val(probe.window).xaxis[2], Val(probe.window).xaxis[1])
    /\ Len(currentFilteredData) = 4
    /\ currentFilteredData[1].priority > currentFilteredData[4].priority
    /\ \E i, j \in 1..4 :
          i # j /\ TooClose(currentFilteredData[i], currentFilteredData[j],
                            MIN_DIST_X, MIN_DIST_Y)
    /\ probe.whole = currentFilteredData

\* ------------------------------------------------------------------------
\*  C24: what a filter change does to the window
\* ------------------------------------------------------------------------

FilterChangeStep == phase = "ready" /\ lastEvent' = "filter"

\* the filtered set after the step
NewlyFiltered == getFilteredData(rubberData, selectedNames', filterState')

\* a window exists and a newly filtered item lies outside it on either axis
ItemOutsideWindow ==
    /\ ~IsNull(layoutRange)
    /\ \E i \in 1..Len(NewlyFiltered) :
          LET r == NewlyFiltered[i]
              w == Val(layoutRange)
          IN \/ RLt(R(Val(r.x)), w.xaxis[1]) \/ RGt(R(Val(r.x)), w.xaxis[2])
             \/ RLt(R(Val(r.y)), w.yaxis[1]) \/ RGt(R(Val(r.y)), w.yaxis[2])

\* the step pushed a layout with autorange, and the backend chose the window
Autoscaled ==
    /\ inflight' # inflight
    /\ lastPush'.kind = "react" /\ lastPush'.auto
    /\ layoutRange' = Some(Autorange(drawn'))

\* the window is the one before the step, and no autorange was pushed
WindowKept ==
    /\ layoutRange' = layoutRange
    /\ inflight' # inflight => (lastPush'.kind = "react" /\ ~lastPush'.auto)

\* the filter change left the filtered set as it was (lines 1473-1477)
SameFilteredSet == Len(currentFilteredData) > 0 /\ NewlyFiltered = currentFilteredData

\* C24 (as claimed): a filter change discards the window for an autoscale
\* if and only if a window exists and a filtered item lies outside it;
\* otherwise the window is kept.
C24_AutoscaleIffItemOutside ==
    [][FilterChangeStep => IF ItemOutsideWindow THEN Autoscaled ELSE WindowKept]_vars

\* C24 (amended): a filter change that leaves the filtered set as it was
\* renders nothing and keeps the window, whatever lies outside it; one that
\* changes the filtered set discards the window for an autoscale if and only
\* if a window exists and a filtered item lies outside it, and keeps the
\* window otherwise, also for an empty filtered set.
C24_AutoscaleIffItemOutsideOfChangedSet ==
    [][FilterChangeStep =>
          IF SameFilteredSet THEN (layoutRange' = layoutRange /\ inflight' = inflight)
          ELSE IF ItemOutsideWindow THEN Autoscaled
          ELSE WindowKept]_vars

\* a filter change autoscaled a window that showed some of the filtered
\* items and not others
C24_Witness ==
    /\ lastEvent = "filter"
    /\ lastPush.kind = "react" /\ lastPush.auto
    /\ layoutRange = Some(Autorange(drawn))
    /\ Len(currentFilteredData) > 1
    /\ sincePush.any = 0

\* a filter change to the empty set kept a zoomed window
C24_WitnessKept ==
    /\ lastEvent = "filter"
    /\ currentFilteredData = <<>>
    /\ lastPush.kind = "react" /\ ~lastPush.auto
    /\ layoutRange # Some(EmptyAutorange)

\* ------------------------------------------------------------------------
\*  C25: from the two-finger touch start of a pinch until the disarm timer
\*  set at its end fires the guard stays armed, whatever happens in between,
\*  and no recompute triggered by a notification runs while the two fingers
\*  are down.
\* ------------------------------------------------------------------------

PinchInProgress == touches = 2 /\ pinch.pinchActive

GuardArmedThroughPinch == PinchInProgress => isInternalUpdate

NoRecomputeDuringPinch ==
    [][(PinchInProgress /\ touches' = 2) => lastEvent' # "relayout_recompute"]_vars

C25_GuardArmedThroughPinch == []GuardArmedThroughPinch /\ NoRecomputeDuringPinch

\* ------------------------------------------------------------------------
\*  C26: touch-move samples between two animation frames are coalesced. A
\*  sample pushes nothing itself; a window waiting to be pushed is always
\*  the one computed from the latest sample and has exactly one frame
\*  requested for it; the frame pushes that window in one call and leaves
\*  nothing pending, so a frame without a new sample pushes nothing.
\* ------------------------------------------------------------------------

PendingIsLatest ==
    ~IsNull(gesture.pendingLayout) =>
        /\ gesture.pendingLayout = gesture.lastComputed
        /\ ~IsNull(gesture.rafId)

SampleStep == lastEvent' = "touchmove"
FrameStep == lastEvent' = "frame"

SamplesOnlySchedule == SampleStep => (layoutRange' = layoutRange /\ inflight' = inflight)

FramePushesLatestOnce ==
    FrameStep =>
        /\ IF IsNull(gesture.pendingLayout)
           THEN layoutRange' = layoutRange /\ inflight' = inflight
           ELSE layoutRange' = gesture.lastComputed /\ inflight' = Append(inflight, "range")
        /\ IsNull(gesture'.pendingLayout)
        /\ IsNull(gesture'.rafId)

C26_SamplesCoalescedPerFrame ==
    /\ []PendingIsLatest
    /\ [][SamplesOnlySchedule /\ FramePushesLatestOnce]_vars

\* a frame has pushed the window of the later of two samples that arrived
\* before it, the earlier sample's window never having been pushed
C26_Witness ==
    /\ lastEvent = "frame"
    /\ gesture.samples = 2
    /\ gesture.dropped
    /\ ~IsNull(gesture.lastComputed)
    /\ layoutRange = gesture.lastComputed
    /\ IsNull(gesture.pendingLayout)

\* ------------------------------------------------------------------------
\*  C27: the guard cannot stay armed forever
\* ------------------------------------------------------------------------

\* C27: whenever the guard is armed and no pinch is in progress a disarm
\* timer is pending; and in a session of finitely many user events whose
\* pinch gestures end, the guard is eventually disarmed for good, with no
\* timer left, so that a range notification is reacted to again.
DisarmPending == (isInternalUpdate /\ ~pinch.pinchActive) => ~IsNull(internalUpdateTimer)

GuardAtRest == ~isInternalUpdate /\ IsNull(internalUpdateTimer) /\ ~pinch.pinchActive

C27_GuardEventuallyDisarmed == []DisarmPending /\ <>[]GuardAtRest

\* the disarm timer set at the end of a pinch has fired
C27_Witness ==
    /\ lastEvent = "disarm"
    /\ lastUser = "touchend"
    /\ GuardAtRest

\* ------------------------------------------------------------------------
\*  C28: every window computeZoomedRanges returns has a strictly positive
\*  span on both axes, for any current window of positive span wherever it
\*  lies relative to the data bounds, any anchor in the unit square and any
\*  positive scale.
\* ------------------------------------------------------------------------

PositiveSpan(range) == RGt(RSub(range[2], range[1]), Zero)

C28_ZoomedWindowPositiveSpan ==
    (/\ ZAsked
     /\ PositiveSpan(ZReq.xRange) /\ PositiveSpan(ZReq.yRange)
     /\ RGt(ZReq.scale, Zero)
     /\ zoom.res.ok)
        => PositiveSpan(zoom.res.xRange) /\ PositiveSpan(zoom.res.yRange)

\* ------------------------------------------------------------------------
\*  C29: once every description fetch has completed, each description tab
\*  holds the description of the rubber now selected in its slot, in the
\*  language of the country now selected, in whatever order overlapping
\*  fetches completed.
\* ------------------------------------------------------------------------

AllFetchesCompleted == detail.fetches = EmptyBag

CurrentDescription(panelNum) ==
    LET rubber == Val(detail.selectedRubbers[panelNum])
        lang == COUNTRY_TO_LANG(detail.selectedCountry)
    IN Some([header |-> rubber.name,
             body |-> ServerDescription(rubber.brand, lang, rubber.abbr)])

C29_TabsShowCurrentSelection ==
    AllFetchesCompleted =>
        \A panelNum \in 1..2 :
            ~IsNull(detail.selectedRubbers[panelNum]) =>
                detail.tabContents[panelNum] = CurrentDescription(panelNum)

\* ------------------------------------------------------------------------
\*  C30: a recompute started by a view-change notification (the debounce
\*  timer) or by a window resize pushes the window the backend holds at that
\*  moment, with autorange off: the window is the same after the step as
\*  before it, also when filtered items lie outside it.
\* ------------------------------------------------------------------------

PreservingRecomputeStep ==
    /\ hasPlotted
    /\ lastEvent' \in {"relayout_recompute", "resize"}

RepushesCurrentWindow ==
    PreservingRecomputeStep =>
        /\ layoutRange' = layoutRange
        /\ lastPush'.kind = "react"
        /\ ~lastPush'.auto
        /\ inflight' # inflight

C30_PreservingRecomputeKeepsWindow == [][RepushesCurrentWindow]_vars

\* a filtered item lies outside the current window
ItemOutOfView ==
    \E i \in 1..Len(currentFilteredData) :
        LET r == currentFilteredData[i]
            w == Val(layoutRange)
        IN \/ RLt(R(Val(r.x)), w.xaxis[1]) \/ RGt(R(Val(r.x)), w.xaxis[2])
           \/ RLt(R(Val(r.y)), w.yaxis[1]) \/ RGt(R(Val(r.y)), w.yaxis[2])

\* a recompute started by a notification has pushed a window that leaves a
\* filtered item out of view
C30_Witness ==
    /\ lastEvent = "relayout_recompute"
    /\ lastPush.kind = "react" /\ ~lastPush.auto
    /\ sincePush.any = 0
    /\ ItemOutOfView

====
